---- MODULE Spec2Model ----
(***************************************************************************)
(* SMS Bridge v2: the cache-backed verification state machine              *)
(* (core/sms_server_v2.py, core/redis_v2.py, core/services/validation.py)  *)
(* and the consumers of sync_queue: the sync worker and the shutdown drain  *)
(* (core/workers.py) and the recovery trigger.                             *)
(*                                                                         *)
(* Request handlers are plain `def` endpoints, so they run on a thread     *)
(* pool: every Redis call is one atomic step and the steps of concurrent   *)
(* requests interleave.  A redis-py pipeline() is a MULTI/EXEC             *)
(* transaction and is one step.  The sync worker is a job of a            *)
(* BackgroundScheduler and runs on a thread of its own; stop_workers runs *)
(* in the shutdown event, after the last request has been answered.       *)
(***************************************************************************)
EXTENDS Integers, Sequences, FiniteSets, TLC

(***************************************************************************)
(* Bounds of the model                                                     *)
(***************************************************************************)
MaxRequests == 3      \* requests started by the concurrent request threads
MaxSeqRequests == 4   \* requests served one after the other
MaxConfRequests == 2  \* the same, under every settings payload
LowThreshold == 1     \* count_threshold of a strict settings payload
MaxClock == 2         \* hashes generated (distinct server timestamps)
CountThreshold == 3   \* count_threshold of the loaded settings payload
HashLength == 2       \* hash_length of the loaded settings payload
AbuseThreshold == 2   \* blacklist_threshold of the abuse detector

Threads == {"t1", "t2"}
ThreadNo(t) == IF t = "t1" THEN 1 ELSE 2
Actors == Threads \cup {"worker", "shutdown"}

None == [none |-> TRUE]

(***************************************************************************)
(* Mobiles: country code + subscriber number (E.164, `+CC` and 10 digits). *)
(***************************************************************************)
MobileA == [cc |-> "+91", n |-> 1]
MobileB == [cc |-> "+44", n |-> 2]
MobileF == [cc |-> "+33", n |-> 3]
Mobiles == {MobileA, MobileB}            \* senders of the concurrent requests
AllMobiles == {MobileA, MobileB, MobileF}

\* mobile[-4:]: the last digits of the subscriber number
Last4(m) == m.n

Pins == {"1234"}

(***************************************************************************)
(* Strings are sequences of characters.                                    *)
(***************************************************************************)
AllowedPrefix == <<"O", "N", "B", "O", "A", "R", "D", ":">>
OtherPrefix == <<"W", "E", "L", "C", "O", "M", "E", ":">>
Alphabet == <<"A", "B">>

StartsWith(s, p) == Len(s) >= Len(p) /\ SubSeq(s, 1, Len(p)) = p

RECURSIVE Base32Digits(_, _)
Base32Digits(x, len) ==
    IF len = 0 THEN <<>>
    ELSE Base32Digits(x \div Len(Alphabet), len - 1)
            \o <<Alphabet[(x % Len(Alphabet)) + 1]>>

\* Base32(HMAC-SHA256(mobile + timestamp))[:hash_length].  The keyed digest
\* is modelled as collision free: distinct (mobile, timestamp) messages give
\* distinct tokens, and every call reads a later timestamp.
generate_onboarding_hash(mobile, hash_length, ts) == Base32Digits(ts, hash_length)

TokenSet == {Base32Digits(i, HashLength) : i \in 0..(MaxClock - 1)}

\* SHA256(salt + pin): a digest is not the pin
hash_pin(pin, salt) == [sha256 |-> <<salt, pin>>]

(***************************************************************************)
(* Settings payload (config:current)                                       *)
(***************************************************************************)
\* missing: the keys the payload does not have
DefaultConfig ==
    [ missing |-> {},
      allowed_prefix |-> AllowedPrefix,
      hash_length |-> HashLength,
      count_threshold |-> CountThreshold,
      allowed_countries |-> {"+91", "+44"},
      sync_url |-> TRUE,
      recovery_url |-> TRUE,
      hmac_secret |-> "configured-secret",
      checks |-> [ header_hash_check_enabled |-> TRUE,
                   foreign_number_check_enabled |-> TRUE,
                   count_check_enabled |-> TRUE,
                   blacklist_check_enabled |-> TRUE ] ]

\* config.get(key, default)
config_get(payload, key, value, default) == IF key \in payload.missing THEN default ELSE value

\* config.get("allowed_countries", ["+91", "+44"])
allowed_countries_of(payload) ==
    config_get(payload, "allowed_countries", payload.allowed_countries, {"+91", "+44"})

\* config.get("secrets", {}).get("hmac_secret", "default-secret")
hmac_secret_of(payload) ==
    config_get(payload, "secrets", payload.hmac_secret, "default-secret")

VARIABLES
    config,             \* config:current
    active_onboarding,  \* active_onboarding:{hash} -> {mobile, gen_ts} | None
    verified,           \* verified:{mobile} -> {mobile, hash} | None
    sync_queue,         \* LIST sync_queue, index 1 is the left end
    audit_buffer,       \* LIST audit_buffer, index 1 is the left end
    rate,               \* rate:{mobile} -> [count, ttl]
    blacklist,          \* SET blacklist
    pc, req, chk,       \* request threads: position, request, check results
    clock, nreq,        \* server timestamp, requests started
    last,               \* history: the request that returned last, and its response
    okCount,            \* history: SMS answered "received" per token
    pinDone,            \* history: token consumed by the last collectPin per mobile
    at0,                \* history: what held when the thread's request began
    worker_status,      \* workers._worker_status
    wpc, witem,         \* sync worker job: position, item popped
    spc, ditem,         \* stop_workers / drain_sync_queue: position, item popped
    sms_bridge_logs,    \* rows of the sms_bridge_logs table
    tick, lastTick,     \* history: the running tick of the sync worker, the last one
    alone,              \* history: nobody else touched sync_queue during the operation
    pushed, acked,      \* history: entries pushed by pin-setup, acknowledged downstream
    apc, aevents,       \* audit worker job: position, events returned by the flush
    blacklist_db,       \* rows of the durable blacklist table
    bpc, brows,         \* blacklist refresh worker: position, rows fetched
    batch,              \* abuse detector: blacklist_batch, added to the SET, not yet inserted
    validated,          \* SET Queue_validated_mobiles ({mobile}:{device_id})
    lastCheck,          \* history: the last call of a check and its result
    calls,              \* history: count checks that incremented rate:{mobile} in its window
    lastRefresh,        \* history: the last completed blacklist refresh
    setting_cache,      \* setting:{key} -> value | NoValue (60 s TTL)
    sms_settings,       \* rows of the sms_settings table: key -> value | NoValue
    lastGet,            \* history: the last get_setting_value call and its result
    gauges,             \* Prometheus gauges and the onboard request counter
    onboard_hash,       \* onboard_hash:{mobile} -> hash | NoValue
    out_sms_numbers,    \* SET out_sms_numbers
    sms_monitor_queue,  \* LIST sms_monitor_queue, index 1 is the left end
    lastMetric,         \* history: the last operation that emitted a metric
    counting,           \* concurrent count checks of one window: callers and results
    abuse_counter,      \* abuse_counter:{mobile} -> [count, ttl]
    detector,           \* abuse detector: position, keys scanned, key and count read
    monitor,            \* sms_monitor_logger: position, events_raw, events logged
    power_down_store,   \* rows of the power_down_store table
    no_ttl,             \* keys of active_onboarding and verified that carry no TTL
    rebooted            \* the service was shut down and started again

redisVars == <<config, active_onboarding, verified, sync_queue, audit_buffer, rate, blacklist>>
threadVars == <<pc, req, chk>>
histVars == <<last, okCount, pinDone, at0>>
workerVars == <<worker_status, wpc, witem, spc, ditem, sms_bridge_logs, tick, lastTick>>
syncVars == <<workerVars, alone, pushed, acked>>
auditVars == <<apc, aevents>>
checkVars == <<blacklist_db, bpc, brows, batch, validated, lastCheck, calls, lastRefresh>>
settingVars == <<setting_cache, sms_settings, lastGet>>
metricVars == <<gauges, onboard_hash, out_sms_numbers, sms_monitor_queue, lastMetric>>
legacyWorkerVars == <<abuse_counter, detector, monitor>>
storeVars == <<power_down_store, no_ttl, rebooted>>
legacyVars == <<settingVars, metricVars, counting, legacyWorkerVars, storeVars>>
otherVars == <<auditVars, checkVars, legacyVars>>
vars == <<redisVars, threadVars, clock, nreq, histVars, syncVars, otherVars>>

\* the record pushed to sync_queue
outbound(mobile, pin, hash_val) == [mobile |-> mobile, pin |-> pin, hash |-> hash_val]

Outbounds == {outbound(m, p, h) : m \in AllMobiles, p \in Pins, h \in TokenSet}

\* failed_users, repushed: the list of trigger_recovery and how many of its
\* items the except branch has pushed back
NoReq == [op |-> "none", mobile |-> MobileA, message |-> <<>>, hash |-> <<>>, pin |-> "",
          failed_users |-> <<>>, repushed |-> 0, hmac_secret |-> ""]
\* qlen: LLEN sync_queue; again: the request is a collectPin for a token that the
\* mobile's last collectPin consumed, with no verify of that mobile since;
\* queue: sync_queue when a recovery began
NoAt0 == [qlen |-> 0, again |-> FALSE, queue |-> <<>>]
\* posts counts to 2; len0, len1: LLEN sync_queue when the tick began and ended
NoTick == [len0 |-> 0, posts |-> 0, failed |-> FALSE]
\* no status: the exception left the check
Raised == 0
\* k: calls[mobile] after the call
\* count, ttl: the counter the call returned and whether the key has a TTL
NoCheck == [name |-> "none", impl |-> "none", mobile |-> MobileA, fault |-> "none",
            status |-> 0, k |-> 0, count |-> 0, ttl |-> FALSE, device |-> "d1"]
\* cache, table: the blacklist set and the blacklist table when the refresh
\* completed; prev: the set when the refresh before it completed; quiet:
\* neither the table nor the set was written by anybody else since the latest
\* refresh started; starting: that refresh started after a completed one of
\* the same implementation with no such write since that one started; twice:
\* the completed refresh was such a one and nobody else wrote during it
NoRefresh == [done |-> FALSE, impl |-> "none", cache |-> {}, table |-> {}, prev |-> {},
              quiet |-> FALSE, starting |-> FALSE, twice |-> FALSE]
Devices == {"d1", "d2"}
\* Python None where a string is expected
NoValue == "<None>"
SettingKeys == {"batch_timeout"}
\* cached, durable: setting:{key} and the table row when the call began
NoGet == [called |-> FALSE, key |-> "batch_timeout", default |-> NoValue, fault |-> "none",
          cached |-> NoValue, durable |-> NoValue, result |-> NoValue, raised |-> FALSE,
          cache |-> NoValue]
NoGauges == [queue_len |-> 0, out_count |-> 0, blacklist_count |-> 0, abuse_keys |-> 0,
             onboard_requests |-> 0]
\* found: what the registration found for the mobile; stored, queued: the hash
\* is under onboard_hash:{mobile} and the event is on sms_monitor_queue when the
\* registration returns
NoMetric == [op |-> "none", fault |-> "none", raised |-> FALSE, status |-> "none",
             mobile |-> MobileA, found |-> "none", stored |-> FALSE, queued |-> FALSE]
\* callers of the count check for one mobile in one window
MaxCountChecks == CountThreshold + 1
Callers == 1..MaxCountChecks
\* at, count: position and local variable count of each caller; passes, fails:
\* results returned; overlapped: an INCR was issued while another caller was
\* between its INCR and its return
NoCounting == [at |-> [c \in Callers |-> "idle"], count |-> [c \in Callers |-> 0],
               passes |-> 0, fails |-> 0, overlapped |-> FALSE]
\* keys: keys of the scan not yet processed; key, count: the key being
\* processed and the count read for it; flagged: mobiles added to the blacklist
NoDetector == [pc |-> "idle", keys |-> {}, key |-> MobileA, count |-> 0, flagged |-> {}]
\* events_raw: the batch read by LRANGE; logged: the events logged so far
NoMonitor == [pc |-> "idle", events_raw |-> <<>>, logged |-> <<>>]
NoLastTick == [len0 |-> 0, len1 |-> 0, posts |-> 0, failed |-> FALSE, alone |-> TRUE]
NoLast == [op |-> "none", mobile |-> MobileA, hash |-> <<>>, status |-> "none",
           qlen0 |-> 0, qlen1 |-> 0, again |-> FALSE]
NoChk == [header |-> 0, foreign |-> 0, count |-> 0, blacklist |-> 0]

\* the cache after startup with nothing restored, the workers scheduled
Started0 ==
    /\ active_onboarding = [h \in TokenSet |-> None]
    /\ verified = [m \in AllMobiles |-> None]
    /\ sync_queue = <<>>
    /\ audit_buffer = <<>>
    /\ rate = [m \in AllMobiles |-> [count |-> 0, ttl |-> FALSE]]
    /\ pc = [t \in Threads |-> "idle"]
    /\ req = [t \in Threads |-> NoReq]
    /\ chk = [t \in Threads |-> NoChk]
    /\ clock = 0
    /\ nreq = 0
    /\ last = NoLast
    /\ okCount = [h \in TokenSet |-> 0]
    /\ pinDone = [m \in AllMobiles |-> <<>>]
    /\ at0 = [t \in Threads |-> NoAt0]
    /\ worker_status = "running"
    /\ wpc = "idle"
    /\ witem = None
    /\ spc = "up"
    /\ ditem = None
    /\ sms_bridge_logs = <<>>
    /\ tick = NoTick
    /\ lastTick = NoLastTick
    /\ alone = [a \in Actors |-> TRUE]
    /\ pushed = [e \in Outbounds |-> 0]
    /\ acked = [e \in Outbounds |-> 0]
    /\ apc = "idle"
    /\ aevents = <<>>
    /\ blacklist_db = {}
    /\ bpc = "idle"
    /\ brows = {}
    /\ batch = {}
    /\ validated = {}
    /\ lastCheck = NoCheck
    /\ calls = [m \in AllMobiles |-> 0]
    /\ lastRefresh = NoRefresh
    /\ setting_cache = [k \in SettingKeys |-> NoValue]
    /\ sms_settings = [k \in SettingKeys |-> NoValue]
    /\ lastGet = NoGet
    /\ gauges = NoGauges
    /\ onboard_hash = [m \in AllMobiles |-> NoValue]
    /\ out_sms_numbers = {}
    /\ sms_monitor_queue = <<>>
    /\ lastMetric = NoMetric
    /\ counting = NoCounting
    /\ abuse_counter = [m \in AllMobiles |-> [count |-> 0, ttl |-> FALSE]]
    /\ detector = NoDetector
    /\ monitor = NoMonitor
    /\ power_down_store = {}
    /\ no_ttl = {}
    /\ rebooted = FALSE

Init ==
    /\ config = DefaultConfig
    /\ blacklist = {}
    /\ Started0

(***************************************************************************)
(* Redis operations (core/redis_v2.py)                                     *)
(***************************************************************************)
\* mutation: the entry is answered although its TTL has run out
get_active_onboarding_ignoring_ttl(hash_val) == [mobile |-> MobileA, gen_ts |-> 0]

get_active_onboarding(hash_val) ==
    IF hash_val \in DOMAIN active_onboarding THEN active_onboarding[hash_val] ELSE None

set_active_onboarding(hash_val, mobile, gen_ts) ==
    [active_onboarding EXCEPT ![hash_val] = [mobile |-> mobile, gen_ts |-> gen_ts]]

delete_active_onboarding(hash_val) ==
    [h \in DOMAIN active_onboarding |->
        IF h = hash_val THEN None ELSE active_onboarding[h]]

\* mutation: the key is ignored, any verified entry is returned
get_verified_any(mobile) ==
    IF \E m \in AllMobiles : verified[m] # None
    THEN verified[CHOOSE m \in AllMobiles : verified[m] # None]
    ELSE None

get_verified(mobile) == verified[mobile]

set_verified(mobile, hash_val) ==
    [verified EXCEPT ![mobile] = [mobile |-> mobile, hash |-> hash_val]]

\* mutation: the DEL is not issued
delete_verified_skipped(mobile) == verified

delete_verified(mobile) == [verified EXCEPT ![mobile] = None]

\* mutation: the LPUSH is not issued
lpush_sync_queue_skipped(queue, outbound_data) == queue

lpush_sync_queue(queue, outbound_data) == <<outbound_data>> \o queue

\* mutation: the item at the right end is read and left in the list
rpop_sync_queue_peek(queue) ==
    IF queue = <<>>
    THEN [item |-> None, queue |-> queue]
    ELSE [item |-> queue[Len(queue)], queue |-> queue]

\* RPOP: the item at the right end, None when the list is empty
rpop_sync_queue(queue) ==
    IF queue = <<>>
    THEN [item |-> None, queue |-> queue]
    ELSE [item |-> queue[Len(queue)], queue |-> SubSeq(queue, 1, Len(queue) - 1)]

\* mutation: LLEN answers one too many
llen_sync_queue_off_by_one(queue) == Len(queue) + 1

llen_sync_queue(queue) == Len(queue)

lpush_audit_event(event, details) ==
    <<[event |-> event, details |-> details]>> \o audit_buffer

\* INCR, then EXPIRE when the counter was created by this INCR
incr_rate(mobile) ==
    LET count == rate[mobile].count + 1
    IN  [rate EXCEPT ![mobile] = [count |-> count,
                                  ttl |-> IF count = 1 THEN TRUE ELSE @.ttl]]

\* mutation: SISMEMBER always answers 0
sismember_blacklist_never(mobile) == FALSE

sismember_blacklist(mobile) == mobile \in blacklist

\* mutation: only the DELETE of the pair takes effect
verify_pipeline_delete_only(hash_val, mobile) ==
    [active |-> delete_active_onboarding(hash_val), verified |-> verified]

\* the transaction of receive_sms: DELETE active_onboarding:{hash} and
\* SETEX verified:{mobile} under MULTI/EXEC
verify_pipeline(hash_val, mobile) ==
    [active |-> delete_active_onboarding(hash_val),
     verified |-> set_verified(mobile, hash_val)]

(***************************************************************************)
(* Validation checks (core/services/validation.py); 1 pass, 2 fail,        *)
(* 3 disabled                                                              *)
(***************************************************************************)
\* mutation: _execute runs whatever the flag says
ValidationCheck_run_always(enabled, result) == result

ValidationCheck_run(enabled, result) == IF ~enabled THEN 3 ELSE result

\* mutation: the prefix is not compared
HeaderHashCheck_any_prefix(message, allowed_prefix, hash_length) ==
    IF Len(message) # Len(allowed_prefix) + hash_length THEN 2
    ELSE IF get_active_onboarding(SubSeq(message, Len(allowed_prefix) + 1, Len(message))) = None
         THEN 2
    ELSE 1

HeaderHashCheck(message, allowed_prefix, hash_length) ==
    IF Len(message) # Len(allowed_prefix) + hash_length THEN 2
    ELSE IF ~StartsWith(message, allowed_prefix) THEN 2
    ELSE IF get_active_onboarding(SubSeq(message, Len(allowed_prefix) + 1, Len(message))) = None
         THEN 2
    ELSE 1

\* `+CC` followed by 10 digits matches the second pattern and yields `+CC`
extract_country_code(mobile) == mobile.cc

ForeignNumberCheck(mobile, allowed_countries) ==
    IF extract_country_code(mobile) \notin allowed_countries THEN 2 ELSE 1

\* mutation: the threshold itself is refused
CountCheck_at_threshold(count, count_threshold) == IF count >= count_threshold THEN 2 ELSE 1

CountCheck(count, count_threshold) == IF count > count_threshold THEN 2 ELSE 1

BlacklistCheck(mobile) == IF sismember_blacklist(mobile) THEN 2 ELSE 1

\* the caller only tests the result for truth: None and "" are both <<>>
extract_hash_from_message(message, allowed_prefix) ==
    IF StartsWith(message, allowed_prefix)
    THEN SubSeq(message, Len(allowed_prefix) + 1, Len(message))
    ELSE <<>>

AllPassed(c) == c.header # 2 /\ c.foreign # 2 /\ c.count # 2 /\ c.blacklist # 2

\* mutation: only the first failed check is named
FailedChecks_first_only(c) ==
    IF c.header = 2 THEN {"header_hash_check"}
    ELSE IF c.foreign = 2 THEN {"foreign_number_check"}
    ELSE IF c.count = 2 THEN {"count_check"}
    ELSE IF c.blacklist = 2 THEN {"blacklist_check"}
    ELSE {}

FailedChecks(c) ==
    {name \in {"header_hash_check", "foreign_number_check", "count_check", "blacklist_check"} :
        \/ name = "header_hash_check" /\ c.header = 2
        \/ name = "foreign_number_check" /\ c.foreign = 2
        \/ name = "count_check" /\ c.count = 2
        \/ name = "blacklist_check" /\ c.blacklist = 2}

(***************************************************************************)
(* Request threads                                                         *)
(***************************************************************************)
Messages ==
    {AllowedPrefix \o tok : tok \in TokenSet} \cup {OtherPrefix \o Base32Digits(0, HashLength)}

RegisterPcs == {"reg_blacklist", "reg_store", "reg_audit"}

\* a request is served by an idle worker thread of the pool: the first one
CanStart(t) ==
    /\ pc[t] = "idle"
    /\ \A u \in Threads : pc[u] = "idle" => ThreadNo(t) <= ThreadNo(u)

Started(t) == IF pc[t] = "idle" THEN nreq + 1 ELSE nreq

At0(t, r) ==
    IF pc[t] = "idle"
    THEN [qlen |-> Len(sync_queue), again |-> r.op = "pin" /\ pinDone[r.mobile] = r.hash,
          queue |-> IF r.op = "recovery" THEN sync_queue ELSE <<>>]
    ELSE at0[t]

\* the handler returns (or raises HTTPException): the thread is idle again
Return(t, r, status) ==
    /\ pc' = [pc EXCEPT ![t] = "idle"]
    /\ req' = [req EXCEPT ![t] = NoReq]
    /\ chk' = [chk EXCEPT ![t] = NoChk]
    /\ at0' = [at0 EXCEPT ![t] = NoAt0]
    /\ nreq' = Started(t)
    /\ UNCHANGED otherVars
    /\ last' = [op |-> r.op, mobile |-> r.mobile, hash |-> r.hash, status |-> status,
                qlen0 |-> At0(t, r).qlen, qlen1 |-> Len(sync_queue),
                again |-> At0(t, r).again]

\* the handler goes on to its next Redis call
Goto(t, label, r, c) ==
    /\ pc' = [pc EXCEPT ![t] = label]
    /\ req' = [req EXCEPT ![t] = r]
    /\ chk' = [chk EXCEPT ![t] = c]
    /\ at0' = [at0 EXCEPT ![t] = At0(t, r)]
    /\ nreq' = Started(t)
    /\ UNCHANGED <<last, otherVars>>

\* the same, for the handlers that touch neither sync_queue nor the workers
Finish(t, r, status) == Return(t, r, status) /\ UNCHANGED syncVars
Continue(t, label, r, c) == Goto(t, label, r, c) /\ UNCHANGED syncVars

\* who is in the middle of an operation on sync_queue
Active(a) ==
    IF a = "worker" THEN wpc # "idle"
    ELSE IF a = "shutdown" THEN spc \in {"drain_rpop", "drain_post"}
    ELSE pc[a] \in {"rec_rpop", "rec_post", "rec_push"}

\* a touches sync_queue: the operations of the others are no longer alone
Touch(a) == [b \in Actors |-> IF b # a /\ Active(b) THEN FALSE ELSE alone[b]]

(***************************************************************************)
(* POST /onboarding/register                                               *)
(***************************************************************************)
\* steps 1-4: settings, country code, rate limit
register_onboarding(t, mobile) ==
    LET r == [NoReq EXCEPT !.op = "register", !.mobile = mobile] IN
    /\ CanStart(t)
    /\ clock + Cardinality({u \in Threads : pc[u] \in RegisterPcs}) < MaxClock
    /\ UNCHANGED <<config, active_onboarding, verified, sync_queue, audit_buffer,
                   blacklist, clock, okCount, pinDone>>
    /\ IF config = None
       THEN Finish(t, r, "503 Service not configured") /\ UNCHANGED rate
       ELSE IF /\ config.checks.foreign_number_check_enabled
               /\ ~\E cc \in allowed_countries_of(config) : mobile.cc = cc
       THEN Finish(t, r, "403 Country not supported") /\ UNCHANGED rate
       ELSE IF config.checks.count_check_enabled
       THEN /\ rate' = incr_rate(mobile)
            /\ IF rate'[mobile].count > config.count_threshold
               THEN Finish(t, r, "429 Rate limit exceeded")
               ELSE Continue(t, "reg_blacklist", r, NoChk)
       ELSE Continue(t, "reg_blacklist", r, NoChk) /\ UNCHANGED rate

\* step 5: blacklist
register_blacklist(t) ==
    /\ pc[t] = "reg_blacklist"
    /\ IF config.checks.blacklist_check_enabled /\ sismember_blacklist(req[t].mobile)
       THEN Finish(t, req[t], "403 Mobile number is blocked")
       ELSE Continue(t, "reg_store", req[t], chk[t])
    /\ UNCHANGED <<redisVars, clock, okCount, pinDone>>

\* steps 6-7: generate the hash, SETEX active_onboarding:{hash}
register_store(t) ==
    /\ pc[t] = "reg_store"
    /\ LET hash_val == generate_onboarding_hash(req[t].mobile, config.hash_length, clock)
       IN  /\ active_onboarding' = set_active_onboarding(hash_val, req[t].mobile, clock)
           /\ Continue(t, "reg_audit",
                    [req[t] EXCEPT !.hash = hash_val, !.hmac_secret = hmac_secret_of(config)],
                    chk[t])
    /\ clock' = clock + 1
    /\ UNCHANGED <<config, verified, sync_queue, audit_buffer, rate, blacklist,
                   okCount, pinDone>>

\* steps 8-9: HASH_GEN, response
register_audit(t) ==
    /\ pc[t] = "reg_audit"
    /\ audit_buffer' = lpush_audit_event("HASH_GEN",
            [mobile |-> Last4(req[t].mobile), hash |-> req[t].hash])
    /\ Finish(t, req[t], "success")
    /\ UNCHANGED <<config, active_onboarding, verified, sync_queue, rate, blacklist,
                   clock, okCount, pinDone>>

(***************************************************************************)
(* POST /sms/receive                                                       *)
(***************************************************************************)
\* settings, then check 1 (header/hash)
receive_sms(t, mobile, message) ==
    LET r == [NoReq EXCEPT !.op = "sms", !.mobile = mobile, !.message = message] IN
    /\ CanStart(t)
    /\ IF config = None
       THEN Finish(t, r, "failed")
       ELSE Continue(t, "sms_count", r,
                [NoChk EXCEPT !.header =
                    ValidationCheck_run(config.checks.header_hash_check_enabled,
                        HeaderHashCheck(message, config.allowed_prefix, config.hash_length))])
    /\ UNCHANGED <<redisVars, clock, okCount, pinDone>>

\* checks 2 and 3 (country code, rate counter)
sms_count(t) ==
    /\ pc[t] = "sms_count"
    /\ rate' = IF config.checks.count_check_enabled THEN incr_rate(req[t].mobile) ELSE rate
    /\ Continue(t, "sms_blacklist", req[t],
            [chk[t] EXCEPT
                !.foreign = ValidationCheck_run(config.checks.foreign_number_check_enabled,
                    ForeignNumberCheck(req[t].mobile, allowed_countries_of(config))),
                !.count = ValidationCheck_run(config.checks.count_check_enabled,
                    CountCheck(rate'[req[t].mobile].count, config.count_threshold))])
    /\ UNCHANGED <<config, active_onboarding, verified, sync_queue, audit_buffer,
                   blacklist, clock, okCount, pinDone>>

\* check 4 (blacklist), then the verdict of the pipeline
sms_blacklist(t) ==
    /\ pc[t] = "sms_blacklist"
    /\ LET c == [chk[t] EXCEPT !.blacklist =
                    ValidationCheck_run(config.checks.blacklist_check_enabled,
                        BlacklistCheck(req[t].mobile))]
       IN  Continue(t, IF AllPassed(c) THEN "sms_exec" ELSE "sms_failed", req[t], c)
    /\ UNCHANGED <<redisVars, clock, okCount, pinDone>>

\* not all_passed: SMS_FAILED, status failed
sms_failed(t) ==
    /\ pc[t] = "sms_failed"
    /\ audit_buffer' = lpush_audit_event("SMS_FAILED",
            [mobile |-> Last4(req[t].mobile), failed_checks |-> FailedChecks(chk[t])])
    /\ Finish(t, req[t], "failed")
    /\ UNCHANGED <<config, active_onboarding, verified, sync_queue, rate, blacklist,
                   clock, okCount, pinDone>>

\* step 3: the atomic DELETE + SETEX
sms_exec(t) ==
    /\ pc[t] = "sms_exec"
    /\ LET hash_val == extract_hash_from_message(req[t].message, config.allowed_prefix)
       IN  /\ Continue(t, "sms_ok", [req[t] EXCEPT !.hash = hash_val], chk[t])
           /\ IF hash_val # <<>>
              THEN /\ active_onboarding' = verify_pipeline(hash_val, req[t].mobile).active
                   /\ verified' = verify_pipeline(hash_val, req[t].mobile).verified
                   /\ pinDone' = [pinDone EXCEPT ![req[t].mobile] = <<>>]
              ELSE UNCHANGED <<active_onboarding, verified, pinDone>>
    /\ UNCHANGED <<config, sync_queue, audit_buffer, rate, blacklist, clock, okCount>>

\* step 4: SMS_VERIFIED, status received
sms_ok(t) ==
    /\ pc[t] = "sms_ok"
    /\ audit_buffer' = lpush_audit_event("SMS_VERIFIED",
            [mobile |-> Last4(req[t].mobile), hash |-> req[t].hash])
    /\ Finish(t, req[t], "received")
    /\ okCount' = [h \in TokenSet |->
            IF h = req[t].hash /\ okCount[h] < 2 THEN okCount[h] + 1 ELSE okCount[h]]
    /\ UNCHANGED <<config, active_onboarding, verified, sync_queue, rate, blacklist,
                   clock, pinDone>>

(***************************************************************************)
(* POST /pin-setup                                                         *)
(***************************************************************************)
\* steps 1-2: GET verified:{mobile}, compare the hash
setup_pin(t, mobile, pin, hash_val) ==
    LET r == [NoReq EXCEPT !.op = "pin", !.mobile = mobile, !.pin = pin, !.hash = hash_val] IN
    /\ CanStart(t)
    /\ IF get_verified(mobile) = None
       THEN Finish(t, r, "404 Mobile not found in verified entries")
       ELSE IF get_verified(mobile).hash # hash_val
       THEN Finish(t, r, "400 Hash mismatch")
       ELSE Continue(t, "pin_push", r, NoChk)
    /\ UNCHANGED <<redisVars, clock, okCount, pinDone>>

\* step 3: LPUSH sync_queue
pin_push(t) ==
    /\ pc[t] = "pin_push"
    /\ LET outbound_data == outbound(req[t].mobile, req[t].pin, req[t].hash)
       IN  /\ sync_queue' = lpush_sync_queue(sync_queue, outbound_data)
           /\ pushed' = [pushed EXCEPT ![outbound_data] = @ + 1]
    /\ alone' = Touch(t)
    /\ Goto(t, "pin_delete", req[t], chk[t])
    /\ UNCHANGED <<config, active_onboarding, verified, audit_buffer, rate, blacklist,
                   clock, okCount, pinDone, workerVars, acked>>

\* step 4: DEL verified:{mobile}
pin_delete(t) ==
    /\ pc[t] = "pin_delete"
    /\ verified' = delete_verified(req[t].mobile)
    /\ pinDone' = [pinDone EXCEPT ![req[t].mobile] = req[t].hash]
    /\ Continue(t, "pin_audit", req[t], chk[t])
    /\ UNCHANGED <<config, active_onboarding, sync_queue, audit_buffer, rate, blacklist,
                   clock, okCount>>

\* step 5: PIN_COLLECTED, response
pin_audit(t) ==
    /\ pc[t] = "pin_audit"
    /\ audit_buffer' = lpush_audit_event("PIN_COLLECTED", [mobile |-> Last4(req[t].mobile)])
    /\ Finish(t, req[t], "success")
    /\ UNCHANGED <<config, active_onboarding, verified, sync_queue, rate, blacklist,
                   clock, okCount, pinDone>>

(***************************************************************************)
(* POST /admin/trigger-recovery                                            *)
(***************************************************************************)
reversed(s) == [i \in 1..Len(s) |-> s[Len(s) + 1 - i]]

\* settings, recovery_url, LLEN sync_queue
trigger_recovery(t) ==
    LET r == [NoReq EXCEPT !.op = "recovery"] IN
    /\ CanStart(t)
    /\ IF config = None
       THEN Return(t, r, "503 Service not configured")
       ELSE IF ~config.recovery_url
       THEN Return(t, r, "400 Recovery URL not configured")
       ELSE IF llen_sync_queue(sync_queue) = 0
       THEN Return(t, r, "success: No failed users to recover (sync_queue is empty)")
       ELSE Goto(t, "rec_rpop", r, NoChk)
    /\ UNCHANGED <<redisVars, clock, okCount, pinDone, syncVars>>

\* while True: RPOP, append to failed_users
recovery_rpop(t) ==
    /\ pc[t] = "rec_rpop"
    /\ LET popped == rpop_sync_queue(sync_queue) IN
        /\ sync_queue' = popped.queue
        /\ IF popped.item # None
           THEN /\ Goto(t, "rec_rpop",
                        [req[t] EXCEPT !.failed_users = Append(@, popped.item)], chk[t])
                /\ alone' = Touch(t)
           ELSE IF req[t].failed_users = <<>>
           THEN /\ Return(t, req[t], "success: No failed users to recover")
                /\ alone' = [alone EXCEPT ![t] = TRUE]
           ELSE /\ Goto(t, "rec_post", req[t], chk[t])
                /\ UNCHANGED alone
    /\ UNCHANGED <<config, active_onboarding, verified, audit_buffer, rate, blacklist,
                   clock, okCount, pinDone, workerVars, pushed, acked>>

\* POST recovery_url answers 2xx
recovery_post_ok(t) ==
    /\ pc[t] = "rec_post"
    /\ Goto(t, "rec_audit", req[t], chk[t])
    /\ acked' = [e \in Outbounds |->
            acked[e] + Cardinality({i \in DOMAIN req[t].failed_users : req[t].failed_users[i] = e})]
    /\ UNCHANGED <<redisVars, clock, okCount, pinDone, workerVars, alone, pushed>>

\* POST recovery_url raises httpx.HTTPError (no connection, timeout, non-2xx)
recovery_post_failed(t) ==
    /\ pc[t] = "rec_post"
    /\ Goto(t, "rec_push", req[t], chk[t])
    /\ UNCHANGED <<redisVars, clock, okCount, pinDone, syncVars>>

\* for user in reversed(failed_users): LPUSH; then HTTPException 502
recovery_push(t) ==
    /\ pc[t] = "rec_push"
    /\ IF req[t].repushed < Len(req[t].failed_users)
       THEN /\ sync_queue' = lpush_sync_queue(sync_queue,
                    reversed(req[t].failed_users)[req[t].repushed + 1])
            /\ Goto(t, "rec_push", [req[t] EXCEPT !.repushed = @ + 1], chk[t])
            /\ alone' = Touch(t)
       ELSE /\ Return(t, req[t], "502 Recovery endpoint error")
            /\ alone' = [alone EXCEPT ![t] = TRUE]
            /\ UNCHANGED sync_queue
    /\ UNCHANGED <<config, active_onboarding, verified, audit_buffer, rate, blacklist,
                   clock, okCount, pinDone, workerVars, pushed, acked>>

\* RECOVERY_TRIGGERED, response
recovery_audit(t) ==
    /\ pc[t] = "rec_audit"
    /\ audit_buffer' = lpush_audit_event("RECOVERY_TRIGGERED",
            [users_sent |-> Len(req[t].failed_users)])
    /\ Return(t, req[t], "success: Recovery completed")
    /\ alone' = [alone EXCEPT ![t] = TRUE]
    /\ UNCHANGED <<config, active_onboarding, verified, sync_queue, rate, blacklist,
                   clock, okCount, pinDone, workerVars, pushed, acked>>

(***************************************************************************)
(* Sync worker (core/workers.py), a job of the scheduler                   *)
(***************************************************************************)
\* the scheduler starts a run of the job: status, settings, sync_url
sync_worker ==
    /\ wpc = "idle"
    /\ spc \in {"up", "stopping"}
    /\ IF worker_status # "running" \/ config = None
       THEN UNCHANGED <<wpc, tick>>
       ELSE IF ~config.sync_url
       THEN UNCHANGED <<wpc, tick>>
       ELSE /\ wpc' = "rpop"
            /\ tick' = [NoTick EXCEPT !.len0 = Len(sync_queue)]
    /\ UNCHANGED <<redisVars, threadVars, clock, nreq, histVars, otherVars, worker_status, witem,
                   spc, ditem, sms_bridge_logs, lastTick, alone, pushed, acked>>

\* what the tick leaves behind
TickDone(queue, who) ==
    [len0 |-> tick.len0, len1 |-> Len(queue), posts |-> tick.posts,
     failed |-> tick.failed, alone |-> who["worker"]]

\* while True: item = RPOP; None ends the tick
worker_rpop ==
    /\ wpc = "rpop"
    /\ LET popped == rpop_sync_queue(sync_queue) IN
        /\ sync_queue' = popped.queue
        /\ witem' = popped.item
        /\ IF popped.item = None
           THEN /\ wpc' = "idle"
                /\ lastTick' = TickDone(sync_queue, alone)
                /\ tick' = NoTick
                /\ alone' = [alone EXCEPT !["worker"] = TRUE]
           ELSE /\ wpc' = "post"
                /\ alone' = Touch("worker")
                /\ UNCHANGED <<tick, lastTick>>
    /\ UNCHANGED <<config, active_onboarding, verified, audit_buffer, rate, blacklist,
                   threadVars, clock, nreq, histVars, otherVars, worker_status, spc, ditem,
                   sms_bridge_logs, pushed, acked>>

\* POST sync_url answers 2xx: processed += 1, next item
worker_post_ok ==
    /\ wpc = "post"
    /\ wpc' = "rpop"
    /\ witem' = None
    /\ acked' = [acked EXCEPT ![witem] = @ + 1]
    /\ tick' = [tick EXCEPT !.posts = IF @ < 2 THEN @ + 1 ELSE @]
    /\ UNCHANGED <<redisVars, threadVars, clock, nreq, histVars, otherVars, worker_status, spc, ditem,
                   sms_bridge_logs, lastTick, alone, pushed>>

\* mutation: the loop goes on after a failure
continue_after_failure == "rpop"

\* break: a failed POST ends the loop of the tick
break_after_failure == "idle"

\* POST sync_url raises httpx.HTTPError: LPUSH the item, failed += 1, break
worker_post_failed ==
    /\ wpc = "post"
    /\ sync_queue' = lpush_sync_queue(sync_queue, witem)
    /\ witem' = None
    /\ wpc' = break_after_failure
    /\ LET t1 == [tick EXCEPT !.posts = IF @ < 2 THEN @ + 1 ELSE @, !.failed = TRUE] IN
        IF wpc' = "idle"
        THEN /\ lastTick' = [TickDone(sync_queue', Touch("worker")) EXCEPT
                                !.posts = t1.posts, !.failed = TRUE]
             /\ tick' = NoTick
             /\ alone' = [Touch("worker") EXCEPT !["worker"] = TRUE]
        ELSE /\ tick' = t1
             /\ alone' = Touch("worker")
             /\ UNCHANGED lastTick
    /\ UNCHANGED <<config, active_onboarding, verified, audit_buffer, rate, blacklist,
                   threadVars, clock, nreq, histVars, otherVars, worker_status, spc, ditem,
                   sms_bridge_logs, pushed, acked>>

(***************************************************************************)
(* Shutdown: stop_workers, drain_sync_queue, flush_audit_buffer            *)
(***************************************************************************)
\* the shutdown event: _worker_status = "stopping"
stop_workers ==
    /\ spc = "up"
    /\ \A t \in Threads : pc[t] = "idle"
    /\ spc' = "stopping"
    /\ worker_status' = "stopping"
    /\ UNCHANGED <<redisVars, threadVars, clock, nreq, histVars, otherVars, wpc, witem, ditem,
                   sms_bridge_logs, tick, lastTick, alone, pushed, acked>>

\* _scheduler.pause(), then the drain begins: settings, sync_url, LLEN
drain_sync_queue ==
    /\ spc = "stopping"
    /\ spc' = IF config = None THEN "flush"
              ELSE IF ~config.sync_url THEN "flush"
              ELSE IF llen_sync_queue(sync_queue) = 0 THEN "flush"
              ELSE "drain_rpop"
    /\ UNCHANGED <<redisVars, threadVars, clock, nreq, histVars, otherVars, worker_status, wpc, witem,
                   ditem, sms_bridge_logs, tick, lastTick, alone, pushed, acked>>

\* while True: item = RPOP; None ends the drain
drain_rpop ==
    /\ spc = "drain_rpop"
    /\ LET popped == rpop_sync_queue(sync_queue) IN
        /\ sync_queue' = popped.queue
        /\ ditem' = popped.item
        /\ spc' = IF popped.item = None THEN "flush" ELSE "drain_post"
        /\ alone' = IF popped.item = None
                    THEN [alone EXCEPT !["shutdown"] = TRUE]
                    ELSE Touch("shutdown")
    /\ UNCHANGED <<config, active_onboarding, verified, audit_buffer, rate, blacklist,
                   threadVars, clock, nreq, histVars, otherVars, worker_status, wpc, witem,
                   sms_bridge_logs, tick, lastTick, pushed, acked>>

\* POST sync_url answers 2xx: processed += 1, next item
drain_post_ok ==
    /\ spc = "drain_post"
    /\ spc' = "drain_rpop"
    /\ ditem' = None
    /\ acked' = [acked EXCEPT ![ditem] = @ + 1]
    /\ UNCHANGED <<redisVars, threadVars, clock, nreq, histVars, otherVars, worker_status, wpc, witem,
                   sms_bridge_logs, tick, lastTick, alone, pushed>>

\* POST sync_url raises httpx.HTTPError: LPUSH the item, stop draining
drain_post_failed ==
    /\ spc = "drain_post"
    /\ sync_queue' = lpush_sync_queue(sync_queue, ditem)
    /\ ditem' = None
    /\ spc' = "flush"
    /\ alone' = [Touch("shutdown") EXCEPT !["shutdown"] = TRUE]
    /\ UNCHANGED <<config, active_onboarding, verified, audit_buffer, rate, blacklist,
                   threadVars, clock, nreq, histVars, otherVars, worker_status, wpc, witem,
                   sms_bridge_logs, tick, lastTick, pushed, acked>>

\* mutation: LRANGE without the DELETE
flush_audit_buffer_not_cleared == [events |-> audit_buffer, buffer |-> audit_buffer]

\* LRANGE + DELETE audit_buffer under MULTI/EXEC
flush_audit_buffer == [events |-> audit_buffer, buffer |-> <<>>]

\* workers.flush_audit_buffer: flush, batch insert; a database error is logged
stop_flush_audit_buffer(db_ok) ==
    /\ spc = "flush"
    /\ spc' = "shutdown"
    /\ audit_buffer' = flush_audit_buffer.buffer
    /\ sms_bridge_logs' = IF db_ok /\ flush_audit_buffer.events # <<>>
                          THEN sms_bridge_logs \o reversed(flush_audit_buffer.events)
                          ELSE sms_bridge_logs
    /\ UNCHANGED <<config, active_onboarding, verified, sync_queue, rate, blacklist,
                   threadVars, clock, nreq, histVars, otherVars, worker_status, wpc, witem, ditem,
                   tick, lastTick, alone, pushed, acked>>

\* _scheduler.shutdown(wait=True): waits for the running job, then "stopped"
scheduler_shutdown ==
    /\ spc = "shutdown"
    /\ wpc = "idle"
    /\ apc = "idle"
    /\ spc' = "stopped"
    /\ worker_status' = "stopped"
    /\ UNCHANGED <<redisVars, threadVars, clock, nreq, histVars, otherVars, wpc, witem, ditem,
                   sms_bridge_logs, tick, lastTick, alone, pushed, acked>>

(***************************************************************************)
(* TTL expiry of cache keys                                                *)
(***************************************************************************)
ExpireActive(h) ==
    /\ active_onboarding[h] # None
    /\ active_onboarding' = [active_onboarding EXCEPT ![h] = None]
    /\ UNCHANGED <<config, verified, sync_queue, audit_buffer, rate, blacklist,
                   threadVars, clock, nreq, histVars, otherVars, syncVars>>

ExpireVerified(m) ==
    /\ verified[m] # None
    /\ verified' = [verified EXCEPT ![m] = None]
    /\ UNCHANGED <<config, active_onboarding, sync_queue, audit_buffer, rate, blacklist,
                   threadVars, clock, nreq, histVars, otherVars, syncVars>>

ExpireRate(m) ==
    /\ rate[m].count > 0 /\ rate[m].ttl
    /\ rate' = [rate EXCEPT ![m] = [count |-> 0, ttl |-> FALSE]]
    /\ calls' = [calls EXCEPT ![m] = 0]
    /\ UNCHANGED <<config, active_onboarding, verified, sync_queue, audit_buffer, blacklist,
                   threadVars, clock, nreq, histVars, syncVars, auditVars, legacyVars,
                   blacklist_db, bpc, brows, batch, validated, lastCheck, lastRefresh>>

Register == nreq < MaxRequests /\ \E t \in Threads : \E m \in Mobiles : register_onboarding(t, m)
RegisterBlacklist == \E t \in Threads : register_blacklist(t)
RegisterStore == \E t \in Threads : register_store(t)
RegisterAudit == \E t \in Threads : register_audit(t)
ReceiveSms ==
    nreq < MaxRequests /\ \E t \in Threads : \E m \in Mobiles : \E msg \in Messages :
        receive_sms(t, m, msg)
SmsCount == \E t \in Threads : sms_count(t)
SmsBlacklist == \E t \in Threads : sms_blacklist(t)
SmsFailed == \E t \in Threads : sms_failed(t)
SmsExec == \E t \in Threads : sms_exec(t)
SmsOk == \E t \in Threads : sms_ok(t)
SetupPin ==
    nreq < MaxRequests /\ \E t \in Threads : \E m \in Mobiles : \E p \in Pins : \E h \in TokenSet :
        setup_pin(t, m, p, h)
PinPush == \E t \in Threads : pin_push(t)
PinDelete == \E t \in Threads : pin_delete(t)
PinAudit == \E t \in Threads : pin_audit(t)
ExpireActiveKey == \E h \in TokenSet : ExpireActive(h)
ExpireVerifiedKey == \E m \in AllMobiles : ExpireVerified(m)
ExpireRateKey == \E m \in AllMobiles : ExpireRate(m)

HandlerStep ==
    \/ RegisterBlacklist \/ RegisterStore \/ RegisterAudit
    \/ SmsCount \/ SmsBlacklist \/ SmsFailed \/ SmsExec \/ SmsOk
    \/ PinPush \/ PinDelete \/ PinAudit

\* Concurrent requests on the thread pool, within one window of the rate counter
Next ==
    \/ Register \/ ReceiveSms \/ SetupPin
    \/ HandlerStep
    \/ ExpireActiveKey \/ ExpireVerifiedKey

Spec == Init /\ [][Next]_vars

\* One request at a time (a single client driving the flow), keys expiring
\* meanwhile, within one window of the rate counter
AllIdle == \A t \in Threads : pc[t] = "idle"
SeqRegister ==
    AllIdle /\ nreq < MaxSeqRequests
        /\ \E t \in Threads : \E m \in AllMobiles : register_onboarding(t, m)
SeqReceiveSms ==
    AllIdle /\ nreq < MaxSeqRequests
        /\ \E t \in Threads : \E m \in AllMobiles : \E msg \in Messages : receive_sms(t, m, msg)
SeqSetupPin ==
    AllIdle /\ nreq < MaxSeqRequests
        /\ \E t \in Threads : \E m \in AllMobiles : \E p \in Pins : \E h \in TokenSet :
            setup_pin(t, m, p, h)

NextSeq ==
    \/ SeqRegister \/ SeqReceiveSms \/ SeqSetupPin
    \/ HandlerStep
    \/ ExpireActiveKey \/ ExpireVerifiedKey

SpecSeq == Init /\ [][NextSeq]_vars

\* The consumers of sync_queue.  The service is up with two mobiles verified
\* (register and SMS done, audit buffer flushed, rate counters expired);
\* pin-setup and trigger-recovery requests arrive one at a time while the sync
\* worker ticks, then the service shuts down while a tick may still run.
SyncVerified ==
    [m \in AllMobiles |->
        IF m = MobileA THEN [mobile |-> m, hash |-> Base32Digits(0, HashLength)]
        ELSE IF m = MobileB THEN [mobile |-> m, hash |-> Base32Digits(1, HashLength)]
        ELSE None]

InitSync ==
    /\ config = DefaultConfig
    /\ active_onboarding = [h \in TokenSet |-> None]
    /\ verified = SyncVerified
    /\ sync_queue = <<>>
    /\ audit_buffer = <<>>
    /\ rate = [m \in AllMobiles |-> [count |-> 0, ttl |-> FALSE]]
    /\ blacklist = {}
    /\ pc = [t \in Threads |-> "idle"]
    /\ req = [t \in Threads |-> NoReq]
    /\ chk = [t \in Threads |-> NoChk]
    /\ clock = 2
    /\ nreq = 0
    /\ last = NoLast
    /\ okCount = [h \in TokenSet |-> IF \E m \in Mobiles : SyncVerified[m].hash = h THEN 1 ELSE 0]
    /\ pinDone = [m \in AllMobiles |-> <<>>]
    /\ at0 = [t \in Threads |-> NoAt0]
    /\ worker_status = "running"
    /\ wpc = "idle"
    /\ witem = None
    /\ spc = "up"
    /\ ditem = None
    /\ sms_bridge_logs = <<>>
    /\ tick = NoTick
    /\ lastTick = NoLastTick
    /\ alone = [a \in Actors |-> TRUE]
    /\ pushed = [e \in Outbounds |-> 0]
    /\ acked = [e \in Outbounds |-> 0]
    /\ apc = "idle"
    /\ aevents = <<>>
    /\ blacklist_db = {}
    /\ bpc = "idle"
    /\ brows = {}
    /\ batch = {}
    /\ validated = {}
    /\ lastCheck = NoCheck
    /\ calls = [m \in AllMobiles |-> 0]
    /\ lastRefresh = NoRefresh
    /\ setting_cache = [k \in SettingKeys |-> NoValue]
    /\ sms_settings = [k \in SettingKeys |-> NoValue]
    /\ lastGet = NoGet
    /\ gauges = NoGauges
    /\ onboard_hash = [m \in AllMobiles |-> NoValue]
    /\ out_sms_numbers = {}
    /\ sms_monitor_queue = <<>>
    /\ lastMetric = NoMetric
    /\ counting = NoCounting
    /\ abuse_counter = [m \in AllMobiles |-> [count |-> 0, ttl |-> FALSE]]
    /\ detector = NoDetector
    /\ monitor = NoMonitor
    /\ power_down_store = {}
    /\ no_ttl = {}
    /\ rebooted = FALSE

SyncSetupPin ==
    AllIdle /\ spc = "up" /\ nreq < MaxRequests
        /\ \E t \in Threads : \E m \in Mobiles : \E p \in Pins : setup_pin(t, m, p, SyncVerified[m].hash)
TriggerRecovery == AllIdle /\ spc = "up" /\ nreq < MaxRequests /\ \E t \in Threads : trigger_recovery(t)
RecoveryRpop == \E t \in Threads : recovery_rpop(t)
RecoveryPostOk == \E t \in Threads : recovery_post_ok(t)
RecoveryPostFailed == \E t \in Threads : recovery_post_failed(t)
RecoveryPush == \E t \in Threads : recovery_push(t)
RecoveryAudit == \E t \in Threads : recovery_audit(t)
StopFlushAuditBuffer == \E db_ok \in BOOLEAN : stop_flush_audit_buffer(db_ok)

NextSync ==
    \/ SyncSetupPin \/ PinPush \/ PinDelete \/ PinAudit
    \/ TriggerRecovery \/ RecoveryRpop \/ RecoveryPostOk \/ RecoveryPostFailed
    \/ RecoveryPush \/ RecoveryAudit
    \/ sync_worker \/ worker_rpop \/ worker_post_ok \/ worker_post_failed
    \/ stop_workers \/ drain_sync_queue \/ drain_rpop \/ drain_post_ok \/ drain_post_failed
    \/ StopFlushAuditBuffer \/ scheduler_shutdown
    \/ ExpireVerifiedKey

SpecSync == InitSync /\ [][NextSync]_vars

(***************************************************************************)
(* The count check called on its own: checks/count_check.py and            *)
(* CountCheck of services/validation.py.  A fault is a Redis call that     *)
(* raises: INCR, or the EXPIRE that follows the first INCR.                *)
(***************************************************************************)
CountFaults == {"none", "incr", "expire"}

\* the counter after INCR, and after the EXPIRE of a first increment unless it raises
Incremented(mobile, fault) ==
    IF fault = "expire"
    THEN [rate EXCEPT ![mobile].count = @ + 1]
    ELSE incr_rate(mobile)

CanCount(mobile, enabled, fault) ==
    /\ rate[mobile].count <= CountThreshold + 1
    /\ fault # "none" => enabled
    /\ fault = "expire" => rate[mobile].count = 0

Counted(name, impl, mobile, fault, status) ==
    /\ lastCheck' = [name |-> name, impl |-> impl, mobile |-> mobile, fault |-> fault,
                     status |-> status, k |-> calls'[mobile],
                     count |-> IF rate' = rate THEN 0 ELSE rate'[mobile].count,
                     ttl |-> rate'[mobile].ttl, device |-> "d1"]
    /\ UNCHANGED <<config, active_onboarding, verified, sync_queue, audit_buffer, blacklist,
                   threadVars, clock, nreq, histVars, syncVars, auditVars, legacyVars,
                   blacklist_db, bpc, brows, batch, validated, lastRefresh>>

\* checks/count_check.py: every exception is caught and answered FAIL
count_check(mobile, enabled, threshold, fault) ==
    /\ CanCount(mobile, enabled, fault)
    /\ IF ~enabled \/ fault = "incr"
       THEN UNCHANGED <<rate, calls>>
       ELSE /\ rate' = Incremented(mobile, fault)
            /\ calls' = [calls EXCEPT ![mobile] = @ + 1]
    /\ Counted("count_check", "checks", mobile, fault,
            IF ~enabled THEN 3
            ELSE IF fault # "none" THEN 2
            ELSE IF rate'[mobile].count > threshold THEN 2
            ELSE 1)

\* CountCheck().run of services/validation.py: nothing catches the exception
CountCheck_run(mobile, enabled, threshold, fault) ==
    /\ CanCount(mobile, enabled, fault)
    /\ IF ~enabled \/ fault = "incr"
       THEN UNCHANGED <<rate, calls>>
       ELSE /\ rate' = Incremented(mobile, fault)
            /\ calls' = [calls EXCEPT ![mobile] = @ + 1]
    /\ Counted("count_check", "services", mobile, fault,
            ValidationCheck_run(enabled,
                IF fault # "none" THEN Raised
                ELSE CountCheck(rate'[mobile].count, threshold)))

LegacyCountCheck ==
    \E m \in Mobiles : \E enabled \in BOOLEAN : \E fault \in CountFaults :
        count_check(m, enabled, config.count_threshold, fault)
ServiceCountCheck ==
    \E m \in Mobiles : \E enabled \in BOOLEAN : \E fault \in CountFaults :
        CountCheck_run(m, enabled, config.count_threshold, fault)
ExpireCountedKey == \E m \in Mobiles : ExpireRate(m)

NextRate == LegacyCountCheck \/ ServiceCountCheck \/ ExpireCountedKey

SpecRate == Init /\ [][NextRate]_vars

(***************************************************************************)
(* The blacklist and duplicate checks called on their own:                 *)
(* checks/blacklist_check.py, checks/duplicate_check.py and BlacklistCheck *)
(* of services/validation.py.  The blacklist SET (blacklist_mobiles in the *)
(* legacy code, blacklist in redis_v2) is the variable blacklist, the      *)
(* table behind it (blacklist_sms, blacklist_mobiles) is blacklist_db.     *)
(* A fault is a SISMEMBER that raises.                                     *)
(***************************************************************************)
LookupFaults == {"none", "lookup"}

\* await redis_client.sismember(key, member), or the exception it raises
sismember(set, member, fault) ==
    IF fault = "lookup" THEN "error"
    ELSE IF member \in set THEN "member"
    ELSE "absent"

\* checks/blacklist_check.py: the except clause answers FAIL
blacklist_check(enabled, lookup) ==
    IF ~enabled THEN 3
    ELSE IF lookup = "error" THEN 2
    ELSE IF lookup = "member" THEN 2
    ELSE 1

\* mutation: members already in the set are removed by the load
load_blacklist_toggled(cache, mobiles) == (cache \ mobiles) \cup (mobiles \ cache)

\* pipeline: DELETE blacklist, SADD blacklist *mobiles unless the list is empty
load_blacklist_from_db(cache, mobiles) ==
    LET deleted == {}
    IN  IF mobiles # {} THEN deleted \cup mobiles ELSE deleted

\* mutation: the except clause answers FAIL
duplicate_check_fail_closed(enabled, lookup) ==
    IF ~enabled THEN 3
    ELSE IF lookup = "error" THEN 2
    ELSE IF lookup = "member" THEN 2
    ELSE 1

\* checks/duplicate_check.py: the except clause answers PASS
duplicate_check(enabled, lookup) ==
    IF ~enabled THEN 3
    ELSE IF lookup = "error" THEN 1
    ELSE IF lookup = "member" THEN 2
    ELSE 1

\* BlacklistCheck().run of services/validation.py: nothing catches the exception
BlacklistCheck_run(enabled, mobile, fault) ==
    ValidationCheck_run(enabled, IF fault = "lookup" THEN Raised ELSE BlacklistCheck(mobile))

Checked(name, impl, mobile, device, fault, status) ==
    /\ lastCheck' = [name |-> name, impl |-> impl, mobile |-> mobile, fault |-> fault,
                     status |-> status, k |-> 0, count |-> 0, ttl |-> FALSE,
                     device |-> device]
    /\ UNCHANGED <<redisVars, threadVars, clock, nreq, histVars, syncVars, auditVars, legacyVars,
                   blacklist_db, bpc, brows, batch, validated, calls, lastRefresh>>

LegacyBlacklistCheck ==
    \E m \in Mobiles : \E enabled \in BOOLEAN : \E fault \in LookupFaults :
        /\ fault = "lookup" => enabled
        /\ Checked("blacklist_check", "checks", m, "d1", fault,
                blacklist_check(enabled, sismember(blacklist, m, fault)))

ServiceBlacklistCheck ==
    \E m \in Mobiles : \E enabled \in BOOLEAN : \E fault \in LookupFaults :
        /\ fault = "lookup" => enabled
        /\ Checked("blacklist_check", "services", m, "d1", fault,
                BlacklistCheck_run(enabled, m, fault))

DuplicateCheck ==
    \E m \in Mobiles : \E d \in Devices : \E enabled \in BOOLEAN : \E fault \in LookupFaults :
        /\ fault = "lookup" => enabled
        /\ Checked("duplicate_check", "checks", m, d, fault,
                duplicate_check(enabled, sismember(validated, <<m, d>>, fault)))

\* redis_client.mark_mobile_validated: SADD Queue_validated_mobiles {mobile}:{device_id}
mark_mobile_validated(mobile_number, device_id) ==
    /\ validated' = validated \cup {<<mobile_number, device_id>>}
    /\ UNCHANGED <<redisVars, threadVars, clock, nreq, histVars, syncVars, auditVars, legacyVars,
                   blacklist_db, bpc, brows, batch, lastCheck, calls, lastRefresh>>

MarkMobileValidated == \E m \in Mobiles : \E d \in Devices : mark_mobile_validated(m, d)

\* abuse detector, per key over the threshold: SADD blacklist_mobiles, remember for the INSERT
abuse_sadd(mobile) ==
    /\ blacklist' = blacklist \cup {mobile}
    /\ batch' = batch \cup {mobile}
    /\ lastRefresh' = [lastRefresh EXCEPT !.quiet = FALSE]
    /\ UNCHANGED <<config, active_onboarding, verified, sync_queue, audit_buffer, rate,
                   threadVars, clock, nreq, histVars, syncVars, auditVars, legacyVars,
                   blacklist_db, bpc, brows, validated, lastCheck, calls>>

\* abuse detector, end of the iteration: INSERT the batch; an error is logged
abuse_insert(db_ok) ==
    /\ batch # {}
    /\ batch' = {}
    /\ blacklist_db' = IF db_ok THEN blacklist_db \cup batch ELSE blacklist_db
    /\ lastRefresh' = [lastRefresh EXCEPT !.quiet = FALSE]
    /\ UNCHANGED <<redisVars, threadVars, clock, nreq, histVars, syncVars, auditVars, legacyVars,
                   bpc, brows, validated, lastCheck, calls>>

AbuseSadd == \E m \in Mobiles : abuse_sadd(m)
AbuseInsert == \E db_ok \in BOOLEAN : abuse_insert(db_ok)

NextChecks ==
    \/ LegacyBlacklistCheck
    \/ ServiceBlacklistCheck
    \/ DuplicateCheck
    \/ MarkMobileValidated
    \/ AbuseSadd
    \/ AbuseInsert

SpecChecks == Init /\ [][NextChecks]_vars

(***************************************************************************)
(* The audit worker job beside the request handlers and the shutdown       *)
(***************************************************************************)
\* audit_worker: status check, then the flush of workers.flush_audit_buffer
audit_worker ==
    /\ apc = "idle"
    /\ spc \in {"up", "stopping"}
    /\ IF worker_status # "running"
       THEN UNCHANGED <<audit_buffer, apc, aevents>>
       ELSE /\ audit_buffer' = flush_audit_buffer.buffer
            /\ aevents' = flush_audit_buffer.events
            /\ apc' = IF flush_audit_buffer.events = <<>> THEN "idle" ELSE "insert"
    /\ UNCHANGED <<config, active_onboarding, verified, sync_queue, rate, blacklist,
                   threadVars, clock, nreq, histVars, syncVars, checkVars, legacyVars>>

\* with get_db_context() as db: one db.add per event, commit; an exception
\* rolls the batch back and is logged
audit_insert(db_ok) ==
    /\ apc = "insert"
    /\ apc' = "idle"
    /\ aevents' = <<>>
    /\ sms_bridge_logs' = IF db_ok THEN sms_bridge_logs \o reversed(aevents)
                          ELSE sms_bridge_logs
    /\ UNCHANGED <<redisVars, threadVars, clock, nreq, histVars, checkVars, legacyVars,
                   worker_status,
                   wpc, witem, spc, ditem, tick, lastTick, alone, pushed, acked>>

AuditInsert == \E db_ok \in BOOLEAN : audit_insert(db_ok)

NextAudit ==
    \/ Register \/ RegisterBlacklist \/ RegisterStore \/ RegisterAudit
    \/ audit_worker \/ AuditInsert
    \/ stop_workers \/ drain_sync_queue \/ StopFlushAuditBuffer \/ scheduler_shutdown

SpecAudit == Init /\ [][NextAudit]_vars

(***************************************************************************)
(* Blacklist refresh: the periodic populate_blacklist_from_postgres of     *)
(* background_workers.py and the startup load of sms_server_v2.py, beside  *)
(* the writers of the table (admin view, abuse detector) and of the set    *)
(* (abuse detector).                                                       *)
(***************************************************************************)
Begun(impl) == lastRefresh.done /\ lastRefresh.quiet /\ lastRefresh.impl = impl

Completed(impl, cache, starting, quiet) ==
    [done |-> TRUE, impl |-> impl, cache |-> cache, table |-> blacklist_db,
     prev |-> lastRefresh.cache, quiet |-> quiet, starting |-> starting,
     twice |-> starting /\ quiet]

\* SELECT mobile_number FROM blacklist_sms; an empty result ends the cycle
populate_fetch ==
    /\ bpc = "idle"
    /\ brows' = blacklist_db
    /\ IF blacklist_db # {}
       THEN /\ bpc' = "delete"
            /\ lastRefresh' = [lastRefresh EXCEPT !.quiet = TRUE,
                                                   !.starting = Begun("populate")]
       ELSE /\ bpc' = "idle"
            /\ lastRefresh' = Completed("populate", blacklist, Begun("populate"), TRUE)
    /\ UNCHANGED <<redisVars, threadVars, clock, nreq, histVars, syncVars, auditVars, legacyVars,
                   blacklist_db, batch, validated, lastCheck, calls>>

\* await redis_pool.delete('blacklist_mobiles')
populate_delete ==
    /\ bpc = "delete"
    /\ bpc' = "sadd"
    /\ blacklist' = {}
    /\ UNCHANGED <<config, active_onboarding, verified, sync_queue, audit_buffer, rate,
                   threadVars, clock, nreq, histVars, syncVars, auditVars, legacyVars,
                   blacklist_db, brows, batch, validated, lastCheck, calls, lastRefresh>>

\* await redis_pool.sadd('blacklist_mobiles', *mobiles)
populate_sadd ==
    /\ bpc = "sadd"
    /\ bpc' = "idle"
    /\ blacklist' = blacklist \cup brows
    /\ lastRefresh' = Completed("populate", blacklist \cup brows, lastRefresh.starting, lastRefresh.quiet)
    /\ UNCHANGED <<config, active_onboarding, verified, sync_queue, audit_buffer, rate,
                   threadVars, clock, nreq, histVars, syncVars, auditVars, legacyVars,
                   blacklist_db, brows, batch, validated, lastCheck, calls>>

\* startup_event, step 5: query BlacklistMobile, load_blacklist_from_db
startup_load ==
    /\ bpc = "idle"
    /\ blacklist' = load_blacklist_from_db(blacklist, blacklist_db)
    /\ lastRefresh' = Completed("startup", load_blacklist_from_db(blacklist, blacklist_db),
                                Begun("startup"), TRUE)
    /\ UNCHANGED <<config, active_onboarding, verified, sync_queue, audit_buffer, rate,
                   threadVars, clock, nreq, histVars, syncVars, auditVars, legacyVars,
                   blacklist_db, bpc, brows, batch, validated, lastCheck, calls>>

\* BlacklistMobileAdmin, can_create: a row is added to the table
admin_create(mobile) ==
    /\ mobile \notin blacklist_db
    /\ blacklist_db' = blacklist_db \cup {mobile}
    /\ lastRefresh' = [lastRefresh EXCEPT !.quiet = FALSE]
    /\ UNCHANGED <<redisVars, threadVars, clock, nreq, histVars, syncVars, auditVars, legacyVars,
                   bpc, brows, batch, validated, lastCheck, calls>>

\* BlacklistMobileAdmin, can_delete: a row is removed from the table
admin_delete(mobile) ==
    /\ mobile \in blacklist_db
    /\ blacklist_db' = blacklist_db \ {mobile}
    /\ lastRefresh' = [lastRefresh EXCEPT !.quiet = FALSE]
    /\ UNCHANGED <<redisVars, threadVars, clock, nreq, histVars, syncVars, auditVars, legacyVars,
                   bpc, brows, batch, validated, lastCheck, calls>>

AdminCreate == \E m \in Mobiles : admin_create(m)
AdminDelete == \E m \in Mobiles : admin_delete(m)

NextBlacklist ==
    \/ populate_fetch \/ populate_delete \/ populate_sadd
    \/ startup_load
    \/ AdminCreate \/ AdminDelete
    \/ AbuseSadd \/ AbuseInsert

SpecBlacklist == Init /\ [][NextBlacklist]_vars

(***************************************************************************)
(* Register and inbound SMS under every settings payload: config:current   *)
(* absent, present with any of the checks disabled, present without the    *)
(* allowed_countries and secrets keys; the blacklist as loaded at startup. *)
(***************************************************************************)
CheckFlags ==
    [{"header_hash_check_enabled", "foreign_number_check_enabled",
      "count_check_enabled", "blacklist_check_enabled"} -> BOOLEAN]

Configs ==
    {None}
        \cup {[DefaultConfig EXCEPT !.checks = c] : c \in CheckFlags}
        \cup {[DefaultConfig EXCEPT !.count_threshold = LowThreshold]}
        \cup {[DefaultConfig EXCEPT !.missing = {"allowed_countries", "secrets"},
                                    !.allowed_countries = {}, !.hmac_secret = ""]}

InitConfig ==
    /\ config \in Configs
    /\ blacklist \in {{}, {MobileB}}
    /\ Started0

ConfRegister ==
    AllIdle /\ nreq < MaxConfRequests
        /\ \E t \in Threads : \E m \in AllMobiles : register_onboarding(t, m)
ConfReceiveSms ==
    AllIdle /\ nreq < MaxConfRequests
        /\ \E t \in Threads : \E m \in AllMobiles : \E msg \in Messages : receive_sms(t, m, msg)

NextConfig ==
    \/ ConfRegister \/ RegisterBlacklist \/ RegisterStore \/ RegisterAudit
    \/ ConfReceiveSms \/ SmsCount \/ SmsBlacklist \/ SmsFailed \/ SmsExec \/ SmsOk

SpecConfig == InitConfig /\ [][NextConfig]_vars

(***************************************************************************)
(* Settings lookup of the legacy server: sms_settings rows behind a 60 s   *)
(* Redis cache (setting:{key}).                                            *)
(***************************************************************************)
\* values a row can hold; the admin form accepts any string, the empty one too
SettingValues == {"", "2.0", "5.0"}

\* defaults callers pass; default=None when the caller passes none
SettingDefaults == {NoValue, "1.0"}

\* where a call of get_setting_value can fail: the cache read, the database
\* read, the cache write
SettingFaults == {"none", "cache_get", "db", "cache_set"}

\* Python truthiness of an optional string: None and "" are falsy
Truthy(value) == value \notin {NoValue, ""}

\* RedisPool.get_setting_value(key): the cached value, None on a miss and
\* None when the read raised (the error is logged and swallowed)
cache_get_setting(key, fault) ==
    IF fault = "cache_get" THEN NoValue ELSE setting_cache[key]

\* the value get_setting_value holds after the database read: the row's
\* value, the default when there is no row
fetched_setting(key, default) ==
    IF sms_settings[key] = NoValue THEN default ELSE sms_settings[key]

\* RedisPool.cache_setting_value(key, value): SETEX, errors swallowed
cache_setting_value(key, value, fault) ==
    IF fault = "cache_set" THEN setting_cache
    ELSE [setting_cache EXCEPT ![key] = value]

\* get_setting_value(pool, key, default): the value returned
get_setting_value(key, default, fault) ==
    LET cached_value == cache_get_setting(key, fault)
        value == fetched_setting(key, default)
    IN  IF cached_value # NoValue THEN cached_value
        ELSE IF fault = "db" THEN default
        ELSE IF Truthy(value) THEN value ELSE default

\* get_setting_value(pool, key, default): the cache it leaves behind
get_setting_cache(key, default, fault) ==
    LET cached_value == cache_get_setting(key, fault)
        value == fetched_setting(key, default)
    IN  IF cached_value # NoValue \/ fault = "db" \/ value = NoValue
        THEN setting_cache
        ELSE cache_setting_value(key, value, fault)

\* a fault can only happen at a call the lookup makes
FaultReached(key, default, fault) ==
    CASE fault = "db" -> setting_cache[key] = NoValue
      [] fault = "cache_set" ->
            /\ setting_cache[key] = NoValue
            /\ fetched_setting(key, default) # NoValue
      [] OTHER -> TRUE

GetSettingValue ==
    \E key \in SettingKeys, default \in SettingDefaults, fault \in SettingFaults :
        /\ FaultReached(key, default, fault)
        /\ setting_cache' = get_setting_cache(key, default, fault)
        /\ lastGet' = [called |-> TRUE, key |-> key, default |-> default,
                       fault |-> fault, cached |-> setting_cache[key],
                       durable |-> sms_settings[key],
                       result |-> get_setting_value(key, default, fault),
                       raised |-> FALSE,
                       cache |-> get_setting_cache(key, default, fault)[key]]
        /\ UNCHANGED <<redisVars, threadVars, clock, nreq, histVars, syncVars,
                       auditVars, checkVars, sms_settings, metricVars, counting, legacyWorkerVars, storeVars>>

\* batch processor: INSERT ... ON CONFLICT DO UPDATE of the batch_timeout row
InsertBatchTimeout ==
    /\ sms_settings["batch_timeout"] # "2.0"
    /\ sms_settings' = [sms_settings EXCEPT !["batch_timeout"] = "2.0"]
    /\ UNCHANGED <<redisVars, threadVars, clock, nreq, histVars, syncVars,
                   auditVars, checkVars, setting_cache, lastGet, metricVars,
                   counting, legacyWorkerVars, storeVars>>

\* PUT /admin/settings/{key}: UPDATE of an existing row (404 on UPDATE 0),
\* then the cache entry is invalidated; a failing DELETE is swallowed
UpdateSettingValue ==
    \E key \in SettingKeys, value \in SettingValues, invalidated \in BOOLEAN :
        /\ sms_settings[key] # NoValue
        /\ sms_settings' = [sms_settings EXCEPT ![key] = value]
        /\ setting_cache' = IF invalidated
                            THEN [setting_cache EXCEPT ![key] = NoValue]
                            ELSE setting_cache
        /\ <<sms_settings', setting_cache'>> # <<sms_settings, setting_cache>>
        /\ UNCHANGED <<redisVars, threadVars, clock, nreq, histVars, syncVars,
                       auditVars, checkVars, lastGet, metricVars, counting, legacyWorkerVars, storeVars>>

\* the 60 s TTL of setting:{key} runs out
ExpireSetting ==
    \E key \in SettingKeys :
        /\ setting_cache[key] # NoValue
        /\ setting_cache' = [setting_cache EXCEPT ![key] = NoValue]
        /\ UNCHANGED <<redisVars, threadVars, clock, nreq, histVars, syncVars,
                       auditVars, checkVars, sms_settings, lastGet, metricVars,
                       counting, legacyWorkerVars, storeVars>>

NextSettings ==
    \/ GetSettingValue
    \/ InsertBatchTimeout
    \/ UpdateSettingValue
    \/ ExpireSetting

SpecSettings == Init /\ [][NextSettings]_vars

(***************************************************************************)
(* Metrics of the legacy server: the /metrics scrape helper collect_once   *)
(* and the onboarding counter incremented by the GeoPrasidh registration.  *)
(***************************************************************************)
\* the Redis call of collect_once that fails, if one does
CollectFaults == {"none", "llen", "scard_out", "scard_blacklist"}

\* collect_once: each gauge is set after its Redis call; the first exception
\* leaves the try block.  RedisPool.scan takes no cursor argument, so the call
\* scan(cursor=..., match=..., count=100) raises and ABUSE_COUNTER_KEYS is
\* never set
collect_gauges(fault) ==
    LET g1 == IF fault = "llen" THEN gauges
              ELSE [gauges EXCEPT !.queue_len = Len(sms_monitor_queue)]
        g2 == IF fault \in {"llen", "scard_out"} THEN g1
              ELSE [g1 EXCEPT !.out_count = Cardinality(out_sms_numbers)]
        g3 == IF fault \in {"llen", "scard_out", "scard_blacklist"} THEN g2
              ELSE [g2 EXCEPT !.blacklist_count = Cardinality(blacklist)]
    IN  g3

\* collect_once: every exception is caught and logged
collect_once(fault) ==
    /\ gauges' = collect_gauges(fault)
    /\ lastMetric' = [NoMetric EXCEPT !.op = "collect_once", !.fault = fault,
                                      !.raised = FALSE]
    /\ UNCHANGED <<redisVars, threadVars, clock, nreq, histVars, syncVars,
                   auditVars, checkVars, settingVars, onboard_hash,
                   out_sms_numbers, sms_monitor_queue, counting, legacyWorkerVars, storeVars>>

CollectOnce == \E fault \in CollectFaults : collect_once(fault)

\* the hash stored for a mobile: sha256 over header, mobile and a fresh salt
computed_hash == "sha256"

\* the event pushed to sms_monitor_queue by the registration
onboard_requested(mobile) == [mobile |-> mobile, status |-> "onboard_requested"]

\* mutation: the exception of the counter is not caught
onboard_requests_inc_raises(inc_ok) == IF inc_ok THEN "counted" ELSE "raised"

\* try: SMS_ONBOARD_REQUESTS.inc() except Exception: pass
onboard_requests_inc(inc_ok) == IF inc_ok THEN "counted" ELSE "passed"

\* what register_mobile_geoprasidh finds before it generates a hash
register_found(mobile, permitted_headers) ==
    IF mobile \in out_sms_numbers THEN "onboarded"
    ELSE IF mobile \in blacklist THEN "blacklisted"
    ELSE IF onboard_hash[mobile] # NoValue THEN "existing"
    ELSE IF ~Truthy(permitted_headers) THEN "no_headers"
    ELSE "new"

\* GET /onboard/register/{mobile_number}
register_mobile_geoprasidh(mobile, permitted_headers, inc_ok) ==
    LET found == register_found(mobile, permitted_headers)
        inc == onboard_requests_inc(inc_ok)
        storing == found = "new"
        queueing == found = "new" /\ inc # "raised"
        status == CASE found = "onboarded" -> "409"
                    [] found = "blacklisted" -> "403"
                    [] found = "no_headers" -> "500"
                    [] found = "new" /\ inc = "raised" -> "500"
                    [] OTHER -> "pending"
    IN  /\ nreq < MaxRequests
        /\ nreq' = nreq + 1
        /\ onboard_hash' = IF storing
                           THEN [onboard_hash EXCEPT ![mobile] = computed_hash]
                           ELSE onboard_hash
        /\ gauges' = IF storing /\ inc = "counted"
                     THEN [gauges EXCEPT !.onboard_requests = @ + 1]
                     ELSE gauges
        /\ sms_monitor_queue' = IF queueing
                                THEN <<onboard_requested(mobile)>> \o sms_monitor_queue
                                ELSE sms_monitor_queue
        /\ lastMetric' = [op |-> "register", fault |-> IF inc_ok THEN "none" ELSE "inc",
                          raised |-> FALSE, status |-> status, mobile |-> mobile,
                          found |-> found,
                          stored |-> onboard_hash'[mobile] # NoValue,
                          queued |-> sms_monitor_queue' # sms_monitor_queue]
        /\ UNCHANGED <<redisVars, threadVars, clock, histVars, syncVars,
                       auditVars, checkVars, settingVars, out_sms_numbers, counting, legacyWorkerVars, storeVars>>

RegisterMobile ==
    \E m \in Mobiles, permitted_headers \in {NoValue, "ONBOARD"}, inc_ok \in BOOLEAN :
        register_mobile_geoprasidh(m, permitted_headers, inc_ok)

\* the 24 h TTL of onboard_hash:{mobile} runs out
ExpireOnboardHash ==
    \E m \in Mobiles :
        /\ onboard_hash[m] # NoValue
        /\ onboard_hash' = [onboard_hash EXCEPT ![m] = NoValue]
        /\ UNCHANGED <<redisVars, threadVars, clock, nreq, histVars, syncVars,
                       auditVars, checkVars, settingVars, gauges, out_sms_numbers,
                       sms_monitor_queue, lastMetric, counting, legacyWorkerVars, storeVars>>

\* an SMS of the mobile was validated: SADD out_sms_numbers
MarkOnboarded ==
    \E m \in Mobiles :
        /\ m \notin out_sms_numbers
        /\ out_sms_numbers' = out_sms_numbers \cup {m}
        /\ UNCHANGED <<redisVars, threadVars, clock, nreq, histVars, syncVars,
                       auditVars, checkVars, settingVars, gauges, onboard_hash,
                       sms_monitor_queue, lastMetric, counting, legacyWorkerVars, storeVars>>

\* sms_monitor_logger: LRANGE of up to batch_size events, then LTRIM
MonitorLogger ==
    /\ sms_monitor_queue # <<>>
    /\ sms_monitor_queue' = <<>>
    /\ UNCHANGED <<redisVars, threadVars, clock, nreq, histVars, syncVars,
                   auditVars, checkVars, settingVars, gauges, onboard_hash,
                   out_sms_numbers, lastMetric, counting, legacyWorkerVars, storeVars>>

NextMetrics ==
    \/ CollectOnce
    \/ RegisterMobile
    \/ ExpireOnboardHash
    \/ MarkOnboarded
    \/ MonitorLogger

\* blacklist_mobiles as loaded at startup
InitMetrics ==
    /\ config = DefaultConfig
    /\ blacklist \in {{}, {MobileB}}
    /\ Started0

SpecMetrics == InitMetrics /\ [][NextMetrics]_vars

(***************************************************************************)
(* Pin-setup requests served concurrently by the worker threads of the     *)
(* pool, for mobiles that are verified; nothing consumes sync_queue.       *)
(***************************************************************************)
NextPin ==
    \/ SetupPin \/ PinPush \/ PinDelete \/ PinAudit
    \/ ExpireVerifiedKey

SpecPin == InitSync /\ [][NextPin]_vars

(***************************************************************************)
(* Count checks for one mobile issued concurrently within one window of    *)
(* the counter: incr_rate is INCR, then EXPIRE when INCR answered 1, and   *)
(* the caller compares the count it was given with the threshold.          *)
(***************************************************************************)
CountedMobile == MobileA

\* mutation: read, add one, write back; the second writer overwrites the first
incr_read_modify_write(count) == IF count = 1 THEN 1 ELSE count + 1

\* r.incr(key): the server adds one and answers the new value in one command
incr(count) == count + 1

InCheck(c) == counting.at[c] \in {"expire", "compare"}

\* count = r.incr(key)
count_incr(c) ==
    /\ counting.at[c] = "idle"
    /\ config # None
    /\ rate' = [rate EXCEPT ![CountedMobile].count = incr(@)]
    /\ counting' = [counting EXCEPT
            !.at[c] = IF rate'[CountedMobile].count = 1 THEN "expire" ELSE "compare",
            !.count[c] = rate'[CountedMobile].count,
            !.overlapped = @ \/ \E d \in Callers : InCheck(d)]
    /\ UNCHANGED <<config, active_onboarding, verified, sync_queue, audit_buffer, blacklist,
                   threadVars, clock, nreq, histVars, syncVars, auditVars, checkVars,
                   settingVars, metricVars,
                   legacyWorkerVars, storeVars>>

\* if count == 1: r.expire(key, ttl_seconds)
count_expire(c) ==
    /\ counting.at[c] = "expire"
    /\ rate' = [rate EXCEPT ![CountedMobile].ttl = TRUE]
    /\ counting' = [counting EXCEPT !.at[c] = "compare"]
    /\ UNCHANGED <<config, active_onboarding, verified, sync_queue, audit_buffer, blacklist,
                   threadVars, clock, nreq, histVars, syncVars, auditVars, checkVars,
                   settingVars, metricVars,
                   legacyWorkerVars, storeVars>>

\* count > threshold: FAIL (CountCheck._execute), HTTP 429 (register_onboarding)
count_compare(c) ==
    /\ counting.at[c] = "compare"
    /\ LET status == CountCheck(counting.count[c], config.count_threshold) IN
        counting' = [counting EXCEPT
            !.at[c] = "done",
            !.passes = IF status = 1 THEN @ + 1 ELSE @,
            !.fails = IF status = 2 THEN @ + 1 ELSE @]
    /\ UNCHANGED <<redisVars, threadVars, clock, nreq, histVars, syncVars, auditVars,
                   checkVars, settingVars, metricVars,
                   legacyWorkerVars, storeVars>>

CountIncr == \E c \in Callers : count_incr(c)
CountExpire == \E c \in Callers : count_expire(c)
CountCompare == \E c \in Callers : count_compare(c)

NextCount == CountIncr \/ CountExpire \/ CountCompare

SpecCount == Init /\ [][NextCount]_vars

(***************************************************************************)
(* The header/hash check on messages of every shape: the expected one,     *)
(* another prefix, one character more, one character less.                 *)
(***************************************************************************)
HeaderMessages ==
    Messages
        \cup {AllowedPrefix \o tok \o <<Alphabet[1]>> : tok \in TokenSet}
        \cup {AllowedPrefix \o SubSeq(tok, 1, HashLength - 1) : tok \in TokenSet}

HeaderRegister ==
    AllIdle /\ nreq < MaxRequests
        /\ \E t \in Threads : \E m \in Mobiles : register_onboarding(t, m)
HeaderReceiveSms ==
    AllIdle /\ nreq < MaxRequests
        /\ \E t \in Threads : \E m \in Mobiles : \E msg \in HeaderMessages :
            receive_sms(t, m, msg)

NextHeader ==
    \/ HeaderRegister \/ RegisterBlacklist \/ RegisterStore \/ RegisterAudit
    \/ HeaderReceiveSms \/ SmsCount \/ SmsBlacklist \/ SmsFailed \/ SmsExec \/ SmsOk
    \/ ExpireActiveKey

SpecHeader == Init /\ [][NextHeader]_vars

(***************************************************************************)
(* Abuse counters of the legacy server: run_validation_checks increments   *)
(* abuse_counter:{mobile} for every SMS of a mobile that is not            *)
(* blacklisted; abuse_detector_worker scans the keys every interval,       *)
(* beside the blacklist refresh.                                           *)
(***************************************************************************)
AbuseFaults == {"none", "expire"}

\* INCR abuse_counter:{mobile}, then EXPIRE 86400; an exception of the
\* EXPIRE is logged (one of the INCR leaves the key as it was)
abuse_incr(mobile, fault) ==
    /\ mobile \notin blacklist
    /\ abuse_counter[mobile].count <= AbuseThreshold
    /\ abuse_counter' = [abuse_counter EXCEPT
            ![mobile] = [count |-> @.count + 1,
                         ttl |-> IF fault = "expire" THEN @.ttl ELSE TRUE]]
    /\ UNCHANGED <<redisVars, threadVars, clock, nreq, histVars, syncVars, auditVars, checkVars,
                   settingVars, metricVars, counting, detector, monitor, storeVars>>

\* the 24 h TTL of abuse_counter:{mobile} runs out
ExpireAbuse(mobile) ==
    /\ abuse_counter[mobile].count > 0
    /\ abuse_counter[mobile].ttl
    /\ abuse_counter' = [abuse_counter EXCEPT ![mobile] = [count |-> 0, ttl |-> FALSE]]
    /\ UNCHANGED <<redisVars, threadVars, clock, nreq, histVars, syncVars, auditVars, checkVars,
                   settingVars, metricVars, counting, detector, monitor, storeVars>>

\* keys = scan("abuse_counter:*"); blacklist_batch = []
detector_scan ==
    /\ detector.pc = "idle"
    /\ \E m \in Mobiles : abuse_counter[m].count > 0
    /\ detector' = [detector EXCEPT !.pc = "get",
                                    !.keys = {m \in Mobiles : abuse_counter[m].count > 0}]
    /\ batch' = {}
    /\ UNCHANGED <<redisVars, threadVars, clock, nreq, histVars, syncVars, auditVars,
                   blacklist_db, bpc, brows, validated, lastCheck, calls, lastRefresh,
                   settingVars, metricVars, counting, abuse_counter, monitor, storeVars>>

\* for key in keys: count = int(GET key or 0); at or over the threshold:
\* SADD blacklist_mobiles, blacklist_batch.append
detector_get ==
    /\ detector.pc = "get"
    /\ \E key \in detector.keys :
        LET count == abuse_counter[key].count IN
        /\ detector' = [detector EXCEPT
                !.pc = "delete", !.key = key, !.count = count,
                !.flagged = IF count >= AbuseThreshold THEN @ \cup {key} ELSE @]
        /\ IF count >= AbuseThreshold
           THEN /\ blacklist' = blacklist \cup {key}
                /\ batch' = batch \cup {key}
                /\ lastRefresh' = [lastRefresh EXCEPT !.quiet = FALSE]
           ELSE UNCHANGED <<blacklist, batch, lastRefresh>>
    /\ UNCHANGED <<config, active_onboarding, verified, sync_queue, audit_buffer, rate,
                   threadVars, clock, nreq, histVars, syncVars, auditVars,
                   blacklist_db, bpc, brows, validated, lastCheck, calls,
                   settingVars, metricVars, counting, abuse_counter, monitor, storeVars>>

\* await redis_pool.delete(key), for every key of the scan; after the last
\* key the batch, if any, is inserted
detector_delete ==
    /\ detector.pc = "delete"
    /\ abuse_counter' = [abuse_counter EXCEPT ![detector.key] = [count |-> 0, ttl |-> FALSE]]
    /\ detector' = [detector EXCEPT
            !.keys = @ \ {detector.key},
            !.pc = IF detector.keys \ {detector.key} # {} THEN "get"
                   ELSE IF batch # {} THEN "insert"
                   ELSE "idle"]
    /\ UNCHANGED <<redisVars, threadVars, clock, nreq, histVars, syncVars, auditVars, checkVars,
                   settingVars, metricVars, counting, monitor, storeVars>>

\* INSERT INTO blacklist_sms ... ON CONFLICT DO UPDATE; an error is logged
detector_insert(db_ok) ==
    /\ detector.pc = "insert"
    /\ detector' = [detector EXCEPT !.pc = "idle"]
    /\ blacklist_db' = IF db_ok THEN blacklist_db \cup batch ELSE blacklist_db
    /\ batch' = {}
    /\ lastRefresh' = [lastRefresh EXCEPT !.quiet = FALSE]
    /\ UNCHANGED <<redisVars, threadVars, clock, nreq, histVars, syncVars, auditVars,
                   bpc, brows, validated, lastCheck, calls,
                   settingVars, metricVars, counting, abuse_counter, monitor, storeVars>>

AbuseIncr == \E m \in Mobiles : \E fault \in AbuseFaults : abuse_incr(m, fault)
ExpireAbuseKey == \E m \in Mobiles : ExpireAbuse(m)
DetectorInsert == \E db_ok \in BOOLEAN : detector_insert(db_ok)

NextAbuse ==
    \/ AbuseIncr \/ ExpireAbuseKey
    \/ detector_scan \/ detector_get \/ detector_delete \/ DetectorInsert

SpecAbuse == Init /\ [][NextAbuse]_vars

\* The detector beside the blacklist refresh and the admin panel: one sender
FlaggedIncr == \E fault \in AbuseFaults : abuse_incr(MobileA, fault)

NextFlagged ==
    \/ FlaggedIncr
    \/ detector_scan \/ detector_get \/ detector_delete \/ DetectorInsert
    \/ populate_fetch \/ populate_delete \/ populate_sadd
    \/ AdminCreate

SpecFlagged == Init /\ [][NextFlagged]_vars

(***************************************************************************)
(* sms_monitor_logger: the batch reader of sms_monitor_queue               *)
(***************************************************************************)

\* batch_size of sms_monitor_logger
BatchSize == 2

MonitorStatuses == {"valid", "invalid"}

\* the event a handler pushes for one SMS; sms.uuid is unique per request
monitor_event(uuid, mobile, status) ==
    [uuid |-> uuid, mobile |-> mobile, status |-> status]

\* redis_pool.lpush("sms_monitor_queue", {...}): the new event becomes the head
monitor_lpush(mobile, status) ==
    /\ nreq < MaxRequests
    /\ nreq' = nreq + 1
    /\ sms_monitor_queue' = <<monitor_event(nreq + 1, mobile, status)>> \o sms_monitor_queue
    /\ UNCHANGED <<redisVars, threadVars, clock, histVars, syncVars,
                   auditVars, checkVars, settingVars, gauges, onboard_hash,
                   out_sms_numbers, lastMetric, counting, legacyWorkerVars, storeVars>>

MonitorLpush == \E m \in Mobiles, status \in MonitorStatuses : monitor_lpush(m, status)

\* lrange(key, 0, batch_size - 1): the batch_size events nearest the head
lrange_batch(queue) ==
    SubSeq(queue, 1, IF Len(queue) < BatchSize THEN Len(queue) ELSE BatchSize)

\* ltrim(key, start, -1): keeps everything from index start (0-based) on
ltrim_from(queue, start) == SubSeq(queue, start + 1, Len(queue))

\* queue_len = llen(...); if queue_len > 0
monitor_llen ==
    /\ monitor.pc = "idle"
    /\ Len(sms_monitor_queue) > 0
    /\ monitor' = [monitor EXCEPT !.pc = "lrange"]
    /\ UNCHANGED <<redisVars, threadVars, clock, nreq, histVars, syncVars,
                   auditVars, checkVars, settingVars, metricVars, counting,
                   abuse_counter, detector, storeVars>>

\* events_raw = lrange(...); every event of the batch is parsed and logged
monitor_lrange ==
    /\ monitor.pc = "lrange"
    /\ LET events_raw == lrange_batch(sms_monitor_queue)
       IN  monitor' = [pc |-> IF events_raw = <<>> THEN "idle" ELSE "ltrim",
                       events_raw |-> events_raw,
                       logged |-> monitor.logged \o events_raw]
    /\ UNCHANGED <<redisVars, threadVars, clock, nreq, histVars, syncVars,
                   auditVars, checkVars, settingVars, metricVars, counting,
                   abuse_counter, detector, storeVars>>

\* ltrim("sms_monitor_queue", len(events_raw), -1)
monitor_ltrim ==
    /\ monitor.pc = "ltrim"
    /\ sms_monitor_queue' = ltrim_from(sms_monitor_queue, Len(monitor.events_raw))
    /\ monitor' = [monitor EXCEPT !.pc = "idle", !.events_raw = <<>>]
    /\ UNCHANGED <<redisVars, threadVars, clock, nreq, histVars, syncVars,
                   auditVars, checkVars, settingVars, gauges, onboard_hash,
                   out_sms_numbers, lastMetric, counting, abuse_counter, detector,
                   storeVars>>

NextMonitor ==
    \/ MonitorLpush
    \/ monitor_llen
    \/ monitor_lrange
    \/ monitor_ltrim

SpecMonitor == Init /\ [][NextMonitor]_vars

(***************************************************************************)
(* The sync worker ticking while pin-setup requests push entries, with a   *)
(* cache that can fail a command and a downstream that can refuse a POST.  *)
(* The scheduler keeps firing the job, a started tick and a started        *)
(* request run on, and the downstream does not refuse for ever.            *)
(***************************************************************************)
\* redis_client.rpop_sync_queue() raises inside the loop: the outer
\* except Exception logs it and sets _worker_status = "degraded"
worker_rpop_raises ==
    /\ wpc = "rpop"
    /\ worker_status' = "degraded"
    /\ wpc' = "idle"
    /\ lastTick' = [TickDone(sync_queue, alone) EXCEPT !.failed = TRUE]
    /\ tick' = NoTick
    /\ alone' = [alone EXCEPT !["worker"] = TRUE]
    /\ UNCHANGED <<redisVars, threadVars, clock, nreq, histVars, otherVars, witem, spc, ditem,
                   sms_bridge_logs, pushed, acked>>

NextLive ==
    \/ SyncSetupPin \/ PinPush \/ PinDelete \/ PinAudit
    \/ sync_worker \/ worker_rpop \/ worker_rpop_raises
    \/ worker_post_ok \/ worker_post_failed

SpecLive ==
    /\ InitSync
    /\ [][NextLive]_vars
    /\ WF_vars(sync_worker)
    /\ WF_vars(worker_rpop)
    /\ SF_vars(worker_post_ok)
    /\ WF_vars(PinPush \/ PinDelete \/ PinAudit)

(***************************************************************************)
(* The blacklist check of the legacy pipeline running while the periodic   *)
(* refresh rebuilds blacklist_mobiles from the table                       *)
(***************************************************************************)
NextRefresh ==
    \/ AdminCreate
    \/ populate_fetch \/ populate_delete \/ populate_sadd
    \/ LegacyBlacklistCheck

SpecRefresh == Init /\ [][NextRefresh]_vars

(***************************************************************************)
(* Restart: the backup of shutdown_event to the power_down_store table     *)
(* and the restore of startup_event (redis_v2.py, sms_server_v2.py).       *)
(* Redis runs on beside the service: keys written with SETEX keep their    *)
(* TTL while the service is down and expire when it is over.               *)
(***************************************************************************)
NoMobile == [cc |-> "", n |-> 0]

\* a Redis key name: active_onboarding:{hash}, verified:{mobile}, config:current
RedisKey(prefix, hash_val, mobile) == [prefix |-> prefix, hash |-> hash_val, mobile |-> mobile]
active_key(h) == RedisKey("active_onboarding", h, NoMobile)
verified_key(m) == RedisKey("verified", <<>>, m)
config_key == RedisKey("config:current", <<>>, NoMobile)

\* mutation: the class takes key_value and stores it as the value of the row
PowerDownStore_with_key_value(key_name, key_value) ==
    [key_name |-> key_name, value |-> key_value, original_ttl |-> None]

\* PowerDownStore(key_name=key, key_value=data): the mapped class has the
\* columns key_name, key_type, value, original_ttl and no attribute key_value,
\* so the declarative constructor raises TypeError and builds no row
PowerDownStore(key_name, key_value) == None

\* the rows built from the scans of active_onboarding:*, verified:* and from
\* config:current
keys_to_backup ==
    {PowerDownStore(active_key(h), active_onboarding[h]) :
        h \in {k \in TokenSet : active_onboarding[k] # None}}
    \cup {PowerDownStore(verified_key(m), verified[m]) :
        m \in {k \in AllMobiles : verified[k] # None}}
    \cup (IF config # None THEN {PowerDownStore(config_key, config)} ELSE {})

\* add_all and commit unless a constructor raised or there is nothing to add
backup_to_power_down_store ==
    IF None \in keys_to_backup THEN power_down_store
    ELSE power_down_store \cup keys_to_backup

\* shutdown_event: workers stopped, then the backup; its exception is logged
shutdown_event ==
    /\ spc = "up"
    /\ AllIdle
    /\ spc' = "stopped"
    /\ worker_status' = "stopped"
    /\ power_down_store' = backup_to_power_down_store
    /\ UNCHANGED <<redisVars, threadVars, clock, nreq, histVars, wpc, witem, ditem,
                   sms_bridge_logs, tick, lastTick, alone, pushed, acked, auditVars,
                   checkVars, settingVars, metricVars, counting, legacyWorkerVars,
                   no_ttl, rebooted>>

Restored(key_name) == \E row \in power_down_store : row.key_name = key_name
RestoredValue(key_name) ==
    (CHOOSE row \in power_down_store : row.key_name = key_name).value

\* pipe.expire runs only for a row whose original_ttl is set and positive
RestoredWithoutTtl ==
    {row.key_name : row \in {r \in power_down_store :
        ~(r.original_ttl # None /\ r.original_ttl > 0)}}

\* startup_event, step 4: restore_from_power_down_store when the table has
\* rows: SET key value for each row, EXPIRE for some, then the rows are deleted
startup_event ==
    /\ spc = "stopped"
    /\ spc' = "up"
    /\ worker_status' = "running"
    /\ rebooted' = TRUE
    /\ active_onboarding' = [h \in TokenSet |->
            IF Restored(active_key(h)) THEN RestoredValue(active_key(h))
            ELSE active_onboarding[h]]
    /\ verified' = [m \in AllMobiles |->
            IF Restored(verified_key(m)) THEN RestoredValue(verified_key(m))
            ELSE verified[m]]
    /\ config' = IF Restored(config_key) THEN RestoredValue(config_key) ELSE config
    /\ no_ttl' = (no_ttl \ {row.key_name : row \in power_down_store})
                    \cup (RestoredWithoutTtl \ {config_key})
    /\ power_down_store' = {}
    /\ UNCHANGED <<sync_queue, audit_buffer, rate, blacklist, threadVars, clock, nreq,
                   histVars, wpc, witem, ditem, sms_bridge_logs, tick, lastTick, alone,
                   pushed, acked, auditVars, checkVars, settingVars, metricVars, counting,
                   legacyWorkerVars>>

\* the TTL of a key runs out, whether the service is up or down
ExpireRestartKey ==
    \/ \E h \in TokenSet : active_key(h) \notin no_ttl /\ ExpireActive(h)
    \/ \E m \in AllMobiles : verified_key(m) \notin no_ttl /\ ExpireVerified(m)

RestartRegister == spc = "up" /\ ConfRegister
RestartReceiveSms == spc = "up" /\ ConfReceiveSms

NextRestart ==
    \/ RestartRegister \/ RegisterBlacklist \/ RegisterStore \/ RegisterAudit
    \/ RestartReceiveSms \/ SmsCount \/ SmsBlacklist \/ SmsFailed \/ SmsExec \/ SmsOk
    \/ ExpireRestartKey
    \/ shutdown_event
    \/ startup_event

SpecRestart == Init /\ [][NextRestart]_vars

(***************************************************************************)
(* Properties                                                              *)
(***************************************************************************)
Live(h) == active_onboarding[h] # None

\* C1: the verify transition is all-or-nothing.  No state holds both the
\* onboarding attempt of a token and a verified entry made from that token;
\* every step of a request thread that consumes a live token creates the
\* verified entry of that token in the same step; and every step that creates
\* or replaces a verified entry leaves its token not found.
VerifyNeverBoth ==
    \A m \in AllMobiles : verified[m] # None => get_active_onboarding(verified[m].hash) = None
VerifyStep ==
    /\ \A h \in TokenSet :
        (Live(h) /\ active_onboarding'[h] = None /\ pc' # pc)
            => \E m \in AllMobiles : verified'[m] # None /\ verified'[m].hash = h
    /\ \A m \in AllMobiles :
        (verified'[m] # None /\ verified'[m] # verified[m])
            => \A h \in TokenSet : h = verified'[m].hash => active_onboarding'[h] = None
    /\ \A t \in Threads :
        (pc[t] = "sms_exec" /\ pc'[t] = "sms_ok")
            => /\ active_onboarding'[req'[t].hash] = None
               /\ verified'[req[t].mobile] = [mobile |-> req[t].mobile, hash |-> req'[t].hash]
C1_VerifyAtomic == [](VerifyNeverBoth) /\ [][VerifyStep]_vars

\* C1 witness: a request has just executed the transition for a token
C1_Witness ==
    \E t \in Threads :
        /\ pc[t] = "sms_ok"
        /\ active_onboarding[req[t].hash] = None
        /\ verified[req[t].mobile] # None
        /\ verified[req[t].mobile].hash = req[t].hash

\* C2: verification is exactly-once per token: at most one inbound SMS
\* carrying a given token is answered "received".
C2_ExactlyOnceVerify == \A h \in TokenSet : okCount[h] <= 1

\* C3: at most one live OnboardingAttempt resolves to a given mobile.
C3_OneLiveAttemptPerMobile ==
    \A h1, h2 \in TokenSet :
        (Live(h1) /\ Live(h2) /\ active_onboarding[h1].mobile = active_onboarding[h2].mobile)
            => h1 = h2

\* C4: every sync-queue entry holds the digest of the PIN salted with
\* mobile + token, never the PIN submitted to collectPin.
C4_PinNeverPlaintext ==
    \A i \in DOMAIN sync_queue :
        /\ sync_queue[i].pin \notin Pins
        /\ \E p \in Pins :
            sync_queue[i].pin = hash_pin(p, <<sync_queue[i].mobile, sync_queue[i].hash>>)

EntriesFor(mobile, hash_val) ==
    {i \in DOMAIN sync_queue : sync_queue[i].mobile = mobile /\ sync_queue[i].hash = hash_val}

\* C5: round trip.  When collectPin(M, pin, token) has returned success (which
\* takes a verified entry, hence a register and a verifying SMS before it), the
\* sync queue is one entry longer than when the request began, holds exactly
\* one entry carrying M and the token, and VerifiedMobile(M) no longer exists.
C5_RoundTrip ==
    (AllIdle /\ last.op = "pin" /\ last.status = "success")
        => /\ Len(sync_queue) = last.qlen0 + 1
           /\ Cardinality(EntriesFor(last.mobile, last.hash)) = 1
           /\ sync_queue[1].mobile = last.mobile
           /\ sync_queue[1].hash = last.hash
           /\ verified[last.mobile] = None

\* C5 witness: a collectPin has succeeded for a token that register issued to
\* the mobile and that an SMS of the mobile verified
C5_Witness ==
    /\ AllIdle /\ last.op = "pin" /\ last.status = "success"
    /\ okCount[last.hash] = 1
    /\ Len(sync_queue) = 1

\* C6: after a successful collectPin for M, a further collectPin for M with the
\* same token, with no verify of M in between, is answered NOT_FOUND and leaves
\* the length of the sync queue unchanged.
C6_PinConsumed ==
    (last.op = "pin" /\ last.again)
        => /\ last.status = "404 Mobile not found in verified entries"
           /\ last.qlen1 = last.qlen0

\* C6 witness: the second collectPin has been answered
C6_Witness ==
    /\ last.op = "pin" /\ last.again
    /\ last.status = "404 Mobile not found in verified entries"
    /\ Len(sync_queue) = 1

CountIn(queue, e) == Cardinality({i \in DOMAIN queue : queue[i] = e})

\* entries popped and neither acknowledged nor pushed back yet
InFlight(e) ==
    LET held(t) ==
            IF pc[t] \in {"rec_rpop", "rec_post"} THEN CountIn(req[t].failed_users, e)
            ELSE IF pc[t] = "rec_push"
            THEN CountIn(SubSeq(reversed(req[t].failed_users), req[t].repushed + 1,
                                Len(req[t].failed_users)), e)
            ELSE 0
    IN  (IF wpc = "post" /\ witem = e THEN 1 ELSE 0)
        + (IF spc = "drain_post" /\ ditem = e THEN 1 ELSE 0)
        + held("t1") + held("t2")

\* C7: downstream delivery failure never drops data.  Every entry pushed by
\* pin-setup is, in every state, in sync_queue, held by the consumer that popped
\* it and has not finished with it, or acknowledged downstream with a 2xx; so
\* once the sync worker, the drain and the recovery trigger have ended, every
\* entry that is not acknowledged is in sync_queue.
C7_NoEntryDropped ==
    \A e \in Outbounds : pushed[e] = CountIn(sync_queue, e) + InFlight(e) + acked[e]

\* C7 witness: a tick of the sync worker and a recovery have failed, the
\* service has stopped, and both entries pushed are in the queue
C7_Witness ==
    /\ lastTick.failed
    /\ last.op = "recovery" /\ last.status = "502 Recovery endpoint error"
    /\ spc = "stopped"
    /\ Len(sync_queue) = 2
    /\ \A e \in Outbounds : acked[e] = 0 /\ InFlight(e) = 0

\* C8: a tick of the sync worker whose POST of the popped entry fails, with
\* nobody else touching the queue meanwhile, leaves LLEN sync_queue as it was
\* when the tick began; and after a failed POST the tick makes no further POST.
C8_FailedTickKeepsLength ==
    /\ (lastTick.failed /\ lastTick.posts = 1 /\ lastTick.alone)
            => lastTick.len1 = lastTick.len0
    /\ ~(tick.failed /\ wpc = "post")

\* C8 witness: such a tick has ended with a second entry waiting in the queue
C8_Witness ==
    /\ lastTick.failed /\ lastTick.posts = 1 /\ lastTick.alone
    /\ lastTick.len0 = 2 /\ lastTick.len1 = 2
    /\ wpc = "idle"

\* C9: re-queueing on sync failure preserves delivery order: when the POST of
\* the sync worker or of the drain fails, the entry pushed back is the next
\* entry RPOP returns.
C9_RequeueKeepsOrder ==
    [][/\ (wpc = "post" /\ wpc' = "idle")
            => sync_queue' # <<>> /\ rpop_sync_queue(sync_queue').item = witem
       /\ (spc = "drain_post" /\ spc' = "flush")
            => sync_queue' # <<>> /\ rpop_sync_queue(sync_queue').item = ditem]_vars

\* C10: when the recovery POST fails and nobody else touches the queue, the
\* request ends (502) with sync_queue holding the drained entries in the order
\* they had when the recovery began.
C10_RecoveryRestoresOrder ==
    [][\A t \in Threads :
        (pc[t] = "rec_push" /\ pc'[t] = "idle" /\ alone[t])
            => sync_queue' = at0[t].queue]_vars

RecoveryPcs == {"rec_rpop", "rec_post", "rec_push", "rec_audit"}

\* C11: trigger_recovery called with sync_queue empty answers success with the
\* message "No failed users to recover (sync_queue is empty)", which is not the
\* 502 of a failed recovery POST, and leaves the queue empty; a recovery goes on
\* to pop, to POST recovery_url and to append RECOVERY_TRIGGERED only when it
\* found the queue non-empty.
C11_EmptyRecovery ==
    /\ (last.op = "recovery" /\ last.qlen0 = 0)
            => /\ last.status = "success: No failed users to recover (sync_queue is empty)"
               /\ last.status # "502 Recovery endpoint error"
               /\ last.qlen1 = 0
    /\ \A t \in Threads : pc[t] \in RecoveryPcs => at0[t].qlen > 0
    /\ \A i \in DOMAIN audit_buffer :
            audit_buffer[i].event = "RECOVERY_TRIGGERED" => audit_buffer[i].details.users_sent > 0

\* C11 witness: a recovery on the empty queue has been answered, after another
\* one got the 502
C11_Witness ==
    /\ last.op = "recovery" /\ last.qlen0 = 0
    /\ last.status = "success: No failed users to recover (sync_queue is empty)"
    /\ AllIdle /\ sync_queue = <<>>
    /\ \E e \in Outbounds : acked[e] > 0

\* C12: the pipeline short-circuits on the first FAIL: once a check of a
\* request has returned FAIL, no later check of that request runs and none of
\* its side effects occur (the rate counter is not incremented).
C12_ShortCircuit ==
    [][\A t \in Threads :
        (pc[t] \in {"sms_count", "sms_blacklist"} /\ pc'[t] # pc[t] /\ ~AllPassed(chk[t]))
            => /\ rate' = rate
               /\ chk'[t] = chk[t]]_vars

\* C14: the count check is fail-safe: when INCR or EXPIRE raises, the check
\* returns FAIL.
C14_CountFailSafe ==
    (lastCheck.name = "count_check" /\ lastCheck.fault # "none") => lastCheck.status = 2

\* C16: within one TTL window the k-th count check of a mobile returns PASS for
\* k <= threshold and FAIL for k > threshold, and returns the count k; the
\* first check of a window (the first ever, or the first after the key has
\* expired) returns count 1 and leaves the key with a TTL.
C16_RateCheck ==
    (lastCheck.name = "count_check" /\ lastCheck.fault = "none" /\ lastCheck.status # 3)
        => /\ lastCheck.k <= CountThreshold => lastCheck.status = 1
           /\ lastCheck.k > CountThreshold => lastCheck.status = 2
           /\ lastCheck.count = lastCheck.k
           /\ lastCheck.k = 1 => lastCheck.ttl

\* C16 witness: the check one past the threshold has failed while the other
\* mobile is in its first check again
C16_Witness ==
    /\ lastCheck.name = "count_check" /\ lastCheck.fault = "none"
    /\ lastCheck.k = CountThreshold + 1 /\ lastCheck.status = 2
    /\ \E m \in Mobiles : m # lastCheck.mobile /\ calls[m] = 1 /\ rate[m].ttl

\* C13: the blacklist check is fail-closed: when the membership lookup raises,
\* the check returns FAIL.
C13_BlacklistFailClosed ==
    (lastCheck.name = "blacklist_check" /\ lastCheck.fault = "lookup") => lastCheck.status = 2

\* C15: the duplicate check is fail-open: when the membership lookup in the
\* already-validated set raises, the check returns PASS, never FAIL, whether
\* or not the mobile and device are in the set.
C15_DuplicateFailOpen ==
    (lastCheck.name = "duplicate_check" /\ lastCheck.fault = "lookup") => lastCheck.status = 1

\* C15 witness: the lookup raised for a mobile and device that are in the set
C15_Witness ==
    /\ lastCheck.name = "duplicate_check" /\ lastCheck.fault = "lookup"
    /\ lastCheck.status = 1
    /\ <<lastCheck.mobile, lastCheck.device>> \in validated

\* C17: the audit flush reads and clears the buffer in one step: every step
\* either leaves the buffer alone, or prepends one event to it, or is a flush
\* that empties it and returns exactly the events it held; the events a flush
\* returned change only when the batch insert ends, so no event is dropped by
\* a flush and none is returned by two flushes.
C17_FlushAtomic ==
    [][/\ \/ audit_buffer' = audit_buffer
          \/ /\ audit_buffer' # <<>>
             /\ Tail(audit_buffer') = audit_buffer
             /\ UNCHANGED <<aevents, sms_bridge_logs>>
          \/ /\ audit_buffer' = <<>>
             /\ \/ apc = "idle" /\ aevents' = audit_buffer
                \/ /\ spc = "flush" /\ spc' = "shutdown" /\ aevents' = aevents
                   /\ sms_bridge_logs' \in {sms_bridge_logs,
                                            sms_bridge_logs \o reversed(audit_buffer)}
       /\ aevents' # aevents
            => \/ apc = "idle" /\ aevents' = audit_buffer /\ audit_buffer' = <<>>
               \/ apc = "insert" /\ aevents' = <<>>]_vars

\* C17 witness: an event was appended between a flush and its batch insert
C17_Witness ==
    /\ apc = "insert"
    /\ aevents # <<>>
    /\ audit_buffer # <<>>

AuditTotal == Len(audit_buffer) + Len(aevents) + Len(sms_bridge_logs)

\* C18: without a crash every appended audit event reaches durable storage
\* exactly once: the events in the buffer, in a running flush and in the
\* table together never become fewer.
C18_EveryEventInserted == [][AuditTotal' >= AuditTotal]_vars

\* C19: the blacklist refresh is a full replace: when a refresh has completed,
\* the blacklist set equals the rows of the blacklist table, the empty table
\* included.
C19_FullReplace == lastRefresh.done => lastRefresh.cache = lastRefresh.table

SmsPipelinePcs == {"sms_count", "sms_blacklist", "sms_failed"}

\* the names of the checks a result vector reports as FAIL
Named(fc, c) ==
    /\ "header_hash_check" \in fc <=> c.header = 2
    /\ "foreign_number_check" \in fc <=> c.foreign = 2
    /\ "count_check" \in fc <=> c.count = 2
    /\ "blacklist_check" \in fc <=> c.blacklist = 2

\* C21: an inbound SMS whose validation pipeline returns overall fail mutates
\* no verification state: the steps of its pipeline and of its failure branch
\* leave the onboarding attempts, the verified mobiles and the sync queue
\* unchanged; the pipeline ends in the failure branch exactly when a check
\* returned FAIL, and that branch appends exactly one event, SMS_FAILED,
\* naming exactly the checks that returned FAIL.
C21_FailedSmsFrame ==
    [][\A t \in Threads :
        (pc[t] \in SmsPipelinePcs /\ pc'[t] # pc[t])
            => /\ UNCHANGED <<active_onboarding, verified, sync_queue>>
               /\ pc[t] = "sms_blacklist"
                    => /\ pc'[t] = "sms_failed" <=> 2 \in {chk'[t].header, chk'[t].foreign,
                                                           chk'[t].count, chk'[t].blacklist}
                       /\ audit_buffer' = audit_buffer
               /\ pc[t] = "sms_count" => audit_buffer' = audit_buffer
               /\ pc[t] = "sms_failed"
                    => /\ pc'[t] = "idle"
                       /\ Len(audit_buffer') = Len(audit_buffer) + 1
                       /\ Tail(audit_buffer') = audit_buffer
                       /\ Head(audit_buffer').event = "SMS_FAILED"
                       /\ Head(audit_buffer').details.failed_checks # {}
                       /\ Named(Head(audit_buffer').details.failed_checks, chk[t])]_vars

\* C21 witness: an SMS has failed two checks at once while an onboarding
\* attempt is alive
C21_Witness ==
    /\ last.op = "sms" /\ last.status = "failed"
    /\ audit_buffer # <<>>
    /\ Head(audit_buffer).event = "SMS_FAILED"
    /\ Cardinality(Head(audit_buffer).details.failed_checks) >= 2
    /\ \E h \in TokenSet : active_onboarding[h] # None

\* a request is past its settings step
Proceeding(t) == pc[t] \in RegisterPcs \cup SmsPipelinePcs \cup {"sms_exec", "sms_ok"}

C23_PinRejected ==
    [][/\ (nreq' # nreq /\ pc' = pc /\ last'.op = "pin")
            => /\ UNCHANGED <<sync_queue, verified, audit_buffer>>
               /\ IF verified[last'.mobile] = None
                  THEN last'.status = "404 Mobile not found in verified entries"
                  ELSE /\ verified[last'.mobile].hash # last'.hash
                       /\ last'.status = "400 Hash mismatch"
       /\ \A t \in Threads :
            (pc[t] = "idle" /\ pc'[t] = "pin_push")
                => /\ verified[req'[t].mobile] # None
                   /\ verified[req'[t].mobile].hash = req'[t].hash]_vars

\* C23 witness: a pin-setup with the wrong hash was rejected for a verified
\* mobile
C23_Witness ==
    /\ last.op = "pin"
    /\ last.status = "400 Hash mismatch"
    /\ verified[last.mobile] # None
    /\ audit_buffer # <<>>

\* the preconditions of register that are enabled hold for the mobile
Passes(mobile) ==
    /\ config.checks.foreign_number_check_enabled
            => mobile.cc \in allowed_countries_of(config)
    /\ config.checks.count_check_enabled => rate[mobile].count <= config.count_threshold
    /\ config.checks.blacklist_check_enabled => mobile \notin blacklist

\* the step is the return of a request, at once or after its last Redis call
Returns ==
    \/ nreq' # nreq /\ pc' = pc
    \/ \E t \in Threads : pc[t] # "idle" /\ pc'[t] = "idle"

HashGens == Len(SelectSeq(audit_buffer, LAMBDA e : e.event = "HASH_GEN"))

\* C24: register stores an onboarding attempt and appends HASH_GEN only for a
\* mobile that passed every enabled precondition check (country code allowed,
\* rate count after the increment within the threshold, not blacklisted); a
\* register that is rejected stores no attempt and appends no HASH_GEN.
C24_RegisterPreconditions ==
    [][/\ (\E h \in TokenSet : /\ active_onboarding'[h] # None
                                /\ active_onboarding'[h] # active_onboarding[h])
            => \E t \in Threads : /\ pc[t] = "reg_store" /\ pc'[t] = "reg_audit"
                                  /\ Passes(req[t].mobile)
       /\ HashGens' # HashGens
            => \E t \in Threads : /\ pc[t] = "reg_audit" /\ pc'[t] = "idle"
                                  /\ Passes(req[t].mobile)
                                  /\ last'.status = "success"
       /\ \A t \in Threads :
            pc'[t] \in {"reg_store", "reg_audit"} => Passes(req'[t].mobile)
       /\ (Returns /\ last'.op = "register" /\ last'.status # "success")
            => /\ active_onboarding' = active_onboarding
               /\ audit_buffer' = audit_buffer]_vars

\* C24 witness: with every check enabled and a mobile on the blacklist, an
\* attempt was stored for another mobile and a register was rejected before
C24_Witness ==
    /\ config # None
    /\ \A f \in DOMAIN config.checks : config.checks[f]
    /\ blacklist # {}
    /\ \E t \in Threads : pc[t] = "reg_audit"
    /\ last.op = "register" /\ last.status # "success"

\* the status a check may return under its flag
StatusUnder(enabled, status) == IF enabled THEN status \in {1, 2} ELSE status = 3

NoEnabledFail(c) ==
    /\ config.checks.header_hash_check_enabled => c.header # 2
    /\ config.checks.foreign_number_check_enabled => c.foreign # 2
    /\ config.checks.count_check_enabled => c.count # 2
    /\ config.checks.blacklist_check_enabled => c.blacklist # 2

\* C25: a check whose enabled flag is false returns DISABLED (3) without
\* running its logic (the rate counter is not incremented) and never blocks:
\* the pipeline passes exactly when no enabled check returned FAIL.
C25_DisabledChecks ==
    [][config # None
        => /\ ~config.checks.count_check_enabled => rate' = rate
           /\ \A t \in Threads :
                /\ (pc[t] = "idle" /\ pc'[t] = "sms_count")
                    => StatusUnder(config.checks.header_hash_check_enabled, chk'[t].header)
                /\ (pc[t] = "sms_count" /\ pc'[t] # pc[t])
                    => /\ StatusUnder(config.checks.foreign_number_check_enabled,
                                      chk'[t].foreign)
                       /\ StatusUnder(config.checks.count_check_enabled, chk'[t].count)
                /\ (pc[t] = "sms_blacklist" /\ pc'[t] # pc[t])
                    => /\ StatusUnder(config.checks.blacklist_check_enabled,
                                      chk'[t].blacklist)
                       /\ pc'[t] \in {"sms_exec", "sms_failed"}
                       /\ pc'[t] = "sms_exec" <=> NoEnabledFail(chk'[t])]_vars

\* C25 witness: with the blacklist check disabled, the SMS of a blacklisted
\* mobile was verified
C25_Witness ==
    /\ config # None
    /\ ~config.checks.blacklist_check_enabled
    /\ last.op = "sms" /\ last.status = "received"
    /\ last.mobile \in blacklist
    /\ verified[last.mobile] # None

\* C26: get_setting_value(key, default) never raises; it returns the cached
\* value when the cache holds one, otherwise the value of the sms_settings row,
\* which it then caches, otherwise the default; and when a cache or database
\* call fails it returns the default.
C26_SettingLookup ==
    lastGet.called =>
        /\ ~lastGet.raised
        /\ lastGet.result =
              IF lastGet.fault # "none" THEN lastGet.default
              ELSE IF lastGet.cached # NoValue THEN lastGet.cached
              ELSE IF lastGet.durable # NoValue THEN lastGet.durable
              ELSE lastGet.default
        /\ (lastGet.fault = "none" /\ lastGet.cached = NoValue
                /\ lastGet.durable # NoValue)
              => lastGet.cache = lastGet.durable

\* C27: metric emission never fails the primary operation.  collect_once
\* returns without raising whichever of its Redis calls fails, and a
\* registration that finds nothing against the mobile answers "pending" with
\* the hash stored and the monitor event queued whether or not the increment
\* of the onboarding counter failed.
C27_MetricsNeverFail ==
    /\ lastMetric.op = "collect_once" => ~lastMetric.raised
    /\ (lastMetric.op = "register" /\ lastMetric.found = "new") =>
          /\ lastMetric.status = "pending"
          /\ lastMetric.stored
          /\ lastMetric.queued

\* a registration went through although the counter could not be incremented,
\* and a scrape came back although its first Redis call failed
C27_Witness ==
    /\ lastMetric.op = "collect_once"
    /\ lastMetric.fault = "llen"
    /\ gauges.onboard_requests = 1
    /\ Len(sms_monitor_queue) = 2

\* C28: under concurrent collectPin requests for the same verified mobile and
\* token at most one request pushes: no entry is pushed twice, and sync_queue
\* never holds more than one entry for the mobile and its token.
C28_OnePushPerVerified ==
    \A m \in Mobiles :
        /\ \A p \in Pins : pushed[outbound(m, p, SyncVerified[m].hash)] <= 1
        /\ Cardinality(EntriesFor(m, SyncVerified[m].hash)) <= 1

\* the scheduler lets a run of the sync worker past its status check
TickStarts == wpc = "idle" /\ wpc' # "idle"

\* C29: single-consumer hand-off.  A consumer pops an entry before it sends
\* it, so the entries held by the sync worker, the shutdown drain and the
\* recovery triggers, together with those acknowledged downstream, never
\* outnumber the pushes: no pushed entry is acknowledged twice.  And a tick of
\* the sync worker starts only when no tick is running and the shutdown has
\* not begun.
C29_SingleConsumer ==
    /\ [](\A e \in Outbounds : InFlight(e) + acked[e] <= pushed[e])
    /\ [][TickStarts => (worker_status = "running" /\ spc = "up" /\ tick = NoTick)]_vars

\* C29 witness: the shutdown drain has popped an entry and has had it
\* acknowledged while a tick that began before the shutdown still holds the
\* entry it popped
C29_Witness ==
    /\ wpc = "post" /\ spc = "drain_rpop"
    /\ \E e \in Outbounds : e # witem /\ acked[e] = 1 /\ pushed[witem] = 1

Incremented30 == {c \in Callers : counting.at[c] # "idle"}
Quiet30 == \A c \in Callers : ~InCheck(c)
Min(a, b) == IF a < b THEN a ELSE b

\* C30: the increment of the rate counter is atomic per key.  Under every
\* interleaving of the count checks issued for one mobile within one window,
\* the N checks that have incremented were given the N distinct counts 1..N,
\* and once they have all returned exactly min(N, T) of them have passed for
\* threshold T, the others have failed.
C30_AtomicIncrement ==
    LET N == Cardinality(Incremented30) IN
    /\ {counting.count[c] : c \in Incremented30} = 1..N
    /\ \A c, d \in Incremented30 : c # d => counting.count[c] # counting.count[d]
    /\ rate[CountedMobile].count = N
    /\ Quiet30 => /\ counting.passes = Min(N, config.count_threshold)
                  /\ counting.fails = N - Min(N, config.count_threshold)

\* C30 witness: one check more than the threshold allows, overlapping, have
\* all returned
C30_Witness ==
    /\ \A c \in Callers : counting.at[c] = "done"
    /\ counting.overlapped
    /\ counting.passes = CountThreshold
    /\ counting.fails = 1

\* the characters of the message after the prefix are the key of a live attempt
LiveToken(message) ==
    \E h \in TokenSet : message = config.allowed_prefix \o h /\ active_onboarding[h] # None

\* C31: the header/hash check answers PASS exactly when the message is as long
\* as the prefix plus hash_length, starts with the prefix and ends with the
\* key of an attempt that is in the cache; in every other case it answers FAIL.
C31_HeaderHashCheck ==
    [][\A t \in Threads :
        (pc[t] = "idle" /\ pc'[t] = "sms_count") =>
            /\ chk'[t].header \in {1, 2}
            /\ chk'[t].header = 1 <=>
                  /\ Len(req'[t].message) = Len(config.allowed_prefix) + config.hash_length
                  /\ StartsWith(req'[t].message, config.allowed_prefix)
                  /\ LiveToken(req'[t].message)]_vars

\* C31 witness: the check has passed a message, after failing a longer one
\* naming the same attempt
C31_Witness ==
    /\ \E t \in Threads : pc[t] = "sms_count" /\ chk[t].header = 1
    /\ last.op = "sms" /\ last.status = "failed"
    /\ audit_buffer # <<>> /\ audit_buffer[1].event = "SMS_FAILED"
    /\ audit_buffer[1].details.failed_checks = {"header_hash_check"}

\* the attempt of token h was stored, has not been consumed by a verified SMS
\* and is no longer in the cache: its TTL has run out (read between requests)
ExpiredAttempt(h) ==
    /\ \E i \in 0..(clock - 1) : h = Base32Digits(i, HashLength)
    /\ active_onboarding[h] = None
    /\ okCount[h] = 0

\* an SMS of the mobile was verified, no collectPin has consumed the entry and
\* it is no longer in the cache: its TTL has run out (read between requests)
ExpiredVerified(m) ==
    /\ verified[m] = None
    /\ pinDone[m] = <<>>
    /\ \E i \in DOMAIN audit_buffer :
            /\ audit_buffer[i].event = "SMS_VERIFIED"
            /\ audit_buffer[i].details.mobile = Last4(m)

\* C32: expiry is the absence of the key.  An SMS that arrives with the token
\* of an expired attempt fails the header/hash check, and only an SMS that
\* passed it reaches the step that creates the verified entry; a collectPin
\* that arrives for a mobile whose verified entry has expired is answered
\* NOT_FOUND and leaves sync_queue alone; and a register that arrives for a
\* mobile of an allowed country below its rate limit is taken up whatever
\* expired before.
C32_ExpiryIsAbsence ==
    /\ [](\A t \in Threads : pc[t] \in {"sms_exec", "sms_ok"} => chk[t].header = 1)
    /\ [][\A t \in Threads :
            /\ (AllIdle /\ pc'[t] = "sms_count"
                    /\ \E h \in TokenSet : /\ req'[t].message = config.allowed_prefix \o h
                                           /\ ExpiredAttempt(h))
                  => chk'[t].header = 2
            /\ (AllIdle /\ nreq' # nreq /\ last'.op = "pin" /\ pc' = pc
                    /\ ExpiredVerified(last'.mobile))
                  => /\ last'.status = "404 Mobile not found in verified entries"
                     /\ sync_queue' = sync_queue
            /\ (AllIdle /\ nreq' # nreq /\ req'[t].op = "register"
                    /\ req'[t].mobile.cc \in allowed_countries_of(config)
                    /\ rate[req'[t].mobile].count < config.count_threshold)
                  => pc'[t] = "reg_blacklist"]_vars

\* C32 witness: the attempt of a mobile has expired, the mobile has registered
\* again, and an SMS with the token of the expired attempt has failed the
\* header/hash check
C32_Witness ==
    \E h1, h2 \in TokenSet : \E t \in Threads :
        /\ ExpiredAttempt(h1)
        /\ active_onboarding[h2] # None /\ active_onboarding[h2].mobile = MobileA
        /\ pc[t] = "sms_count" /\ req[t].mobile = MobileA
        /\ req[t].message = config.allowed_prefix \o h1
        /\ chk[t].header = 2

\* C33: within its window an abuse counter never goes down.  The detector
\* deletes a counter only when the count it read for it was at or over the
\* blacklist threshold; every other reset is the expiry of the key.
C33_AbuseCounterMonotone ==
    [][\A m \in Mobiles :
        (abuse_counter'[m].count < abuse_counter[m].count /\ detector' # detector)
            => detector.count >= AbuseThreshold]_vars

\* C34: a mobile whose counter the detector read at or over the threshold is
\* in the blacklist set and in the blacklist table whenever the detector and
\* the refresh are between two cycles.
C34_BlacklistedForGood ==
    (detector.pc = "idle" /\ bpc = "idle") =>
        \A m \in detector.flagged : m \in blacklist /\ m \in blacklist_db

\* how many times the event with this uuid stands in a sequence of events
Occurrences(events, uuid) ==
    Cardinality({i \in 1..Len(events) : events[i].uuid = uuid})

\* C35: every event pushed to sms_monitor_queue is processed exactly once:
\* no event is logged twice, and whenever the logger is between two batches
\* each pushed event is either logged and gone from the queue or still
\* waiting in it unread
C35_EveryEventOnce ==
    \A uuid \in 1..nreq :
        /\ Occurrences(monitor.logged, uuid) <= 1
        /\ monitor.pc = "idle" =>
               Occurrences(monitor.logged, uuid)
                   + Occurrences(sms_monitor_queue, uuid) = 1

\* register_onboarding generated the token for this mobile: its HASH_GEN event
\* is in the audit buffer, or the request is about to push it
IssuedTo(hash_val, mobile) ==
    \/ \E i \in 1..Len(audit_buffer) :
            /\ audit_buffer[i].event = "HASH_GEN"
            /\ audit_buffer[i].details.hash = hash_val
            /\ audit_buffer[i].details.mobile = Last4(mobile)
    \/ \E t \in Threads :
            pc[t] = "reg_audit" /\ req[t].hash = hash_val /\ req[t].mobile = mobile

\* C36: every verified entry is bound to its own onboarding: verified:{M}
\* holds a token only if register issued that token for the same mobile M
C36_VerifiedOwnOnboarding ==
    \A m \in AllMobiles :
        verified[m] # None => IssuedTo(verified[m].hash, m)

\* C37: with the ticks scheduled fairly and a downstream that eventually
\* accepts, whatever stands on the sync queue is eventually taken off it and
\* acknowledged: a non-empty queue leads to an empty one with nothing held
C37_SyncLiveness ==
    (sync_queue # <<>>) ~> (sync_queue = <<>> /\ witem = None)

\* C38: every rate counter that exists carries a TTL, also after a count
\* check whose INCR succeeded and whose EXPIRE raised
C38_RateKeyExpires ==
    \A m \in AllMobiles : rate[m].count > 0 => rate[m].ttl

\* the mobile was in the set when the latest completed refresh ended, the
\* refresh now running read its row, and the row is still in the table
ListedThroughRefresh(m) ==
    /\ lastRefresh.done /\ m \in lastRefresh.cache
    /\ bpc # "idle" /\ m \in brows
    /\ m \in blacklist_db

\* C39: a refresh opens no window of admission: a blacklist check that runs
\* while a refresh is under way, for a mobile listed before and after it,
\* never answers PASS
C39_NoAdmissionWindow ==
    [][\A m \in Mobiles :
        (/\ ListedThroughRefresh(m)
         /\ lastCheck' # lastCheck
         /\ lastCheck'.name = "blacklist_check"
         /\ lastCheck'.mobile = m)
            => lastCheck'.status # 1]_vars

====
